---- MODULE Spec2Model ----
(***************************************************************************)
(* State-machine model of the PixelAir / Fluora Home Assistant            *)
(* integrations: the reference-counted shared UDP listener                 *)
(* (async_setup_entry / async_unload_entry), the flow-scoped discovery     *)
(* listener of the config flow and the flow's steps, and the coordinator:  *)
(* its commands, its polling and state callback, its first refresh, and    *)
(* the device behind it.                                                   *)
(*                                                                         *)
(* Every `await` of the source is a suspension point: a handler is cut     *)
(* into one action per stretch of code between two awaits, and pc[e]       *)
(* holds the await at which the call for entry e is suspended.             *)
(*                                                                         *)
(* Opaque collaborators (libpixelair, the host platform) are modelled at   *)
(* their call sites: an awaited library call returns or raises, chosen     *)
(* nondeterministically, except UDPListener.stop(), device.unregister()    *)
(* and async_forward_entry_setups(), which are taken to return.            *)
(***************************************************************************)
EXTENDS Integers, Sequences, FiniteSets, TLC

\* ------------------------------------------------------------------ bounds
NumEntries == 2
MaxListeners == 2
MaxRefCount == 2

Entries == 1..NumEntries
Listeners == 1..MaxListeners
\* One domain-data object can be live per call in flight, plus the one in hass.data.
DomainObjs == 1..(NumEntries + 1)
None == 0

VARIABLES
    \* ---- hass.data[DOMAIN] and the PixelAirDomainData objects on the heap
    hassDomain,        \* the object hass.data[DOMAIN] refers to, None when the key is absent
    dd_listener,       \* dd_listener[d]: field `listener` of domain-data object d
    dd_ref_count,      \* dd_ref_count[d]: field `listener_ref_count` of object d
    \* ---- UDPListener objects created by async_setup_entry
    lstate,            \* "unused" | "created" | "started" | "failed" | "stopping" | "stopped"
    stopCalls,         \* stopCalls[l]: number of stop() calls issued on listener l
    \* ---- one config entry e: the call in flight and what the host keeps
    pc,                \* await at which the call for e is suspended, "idle" when none
    domain_data,       \* local `domain_data` of the call in flight
    listener,          \* local `listener` of the call in flight
    entryState,        \* "not_loaded" | "loaded"
    device,            \* listener the entry's PixelAirDevice is bound to, None when no device
    registered,        \* device.register() done and not undone
    cbRegistered,      \* _state_callback_registered of the coordinator created last for e
    pollingStarted,    \* _polling_started of that coordinator
    runtime_data,      \* entry.runtime_data is set
    \* ---- the caller's view
    result,            \* what the call that ended last returned or raised
    preCount,          \* listener_ref_count when the call that began last was entered
    \* ---- the config flow's own listener (PixelAirConfigFlow._listener)
    flowPc,
    flowStep,
    flow_listener,
    flow_stop_calls,   \* stop() calls on the listener the flow created last
    \* ---- the fluora variant: hass.data["fluora"], a dict
    f_domain,          \* DOMAIN in hass.data
    f_listener,        \* hass.data[DOMAIN]["listener"]
    f_ref_count,       \* hass.data[DOMAIN]["listener_ref_count"]
    f_entries,         \* the entry ids that are keys of hass.data[DOMAIN]
    f_lstate,          \* the UDPListener objects created by the fluora setup
    f_stopCalls,
    f_result,          \* what the fluora call that ended last returned or raised
    \* ---- one coordinator after setup, its device, and a command call
    variant,           \* "pixelair" (PixelAirCoordinator) or "fluora" (FluoraDeviceCoordinator)
    dev_state,         \* device.state, the state the library holds for the device
    data,              \* coordinator.data
    last_update_success,
    published,         \* the last step notified the coordinator's listeners
    cmdPc,             \* "idle", or "awaiting" the device command
    cmd,               \* the command of the call in flight
    cmdCalls,          \* device commands issued by the call in flight or ended last
    cmdResult,         \* "none" | "pending" | "returned" | the exception raised
    event,             \* what the last step was: "optimistic" | "push" | "tick" | "fetch" |
                       \* "start_call" | "start_done" | "stop_call" | "stop_done" | "none"
    notified,          \* number of notifications of the coordinator's listeners, modulo 2
    \* ---- that coordinator's polling and the library's side of it
    polling_started,   \* coordinator._polling_started
    state_callback_registered, \* coordinator._state_callback_registered
    dev_callbacks,     \* how often _on_device_state_change is in the device's callback list
    dev_polling,       \* the library's poll loop for the device is running
    pollPc,            \* "idle" | "starting" | "stopping": the await of the call in flight
    devCalls,          \* device methods called by the polling call in flight or ended last
    \* ---- one call of that coordinator's _async_update_data
    refPc,             \* "idle" | "resolve_ip" | "get_state": the await of the call in flight
    resolve_ok,        \* device.resolve_ip returned (TRUE) or raised (FALSE)
    get_state_out,     \* "none" | "state" | "None" | the exception get_state raised
    get_state_ret,     \* <<s>> when get_state returned the state s, else <<>>
    refResult,         \* "none" | "pending" | "returned" | "UpdateFailed"
    refReturn,         \* <<s>> when _async_update_data returned s, else <<>>
    \* ---- one PixelAirConfigFlow object, step by step, and the host's entries
    flow_form,         \* "none" | "user" | "select_device" | "confirm" | "ended"
    flow_source,       \* "none" | "user" | "dhcp": what began the flow
    flow_result,       \* result of the step that ran last: [type, id, error]
    unique_id,         \* the flow's unique id, NoId when not set
    discovered_device, \* self._discovered_device, NoDevice when None
    discovered_devices,\* self._discovered_devices: serial_number -> device
    devices,           \* what discover_with_info returned to the step that ran last
    new_devices,       \* the list `new_devices` that step built
    submitted,         \* the serial the select_device form was submitted with
    probe,             \* how the awaited discovery calls of the flow's last probe went
    entry_data,        \* data of the entry the flow created, NoEntry when none
    current_entries,   \* unique ids of the registered config entries
    \* ---- the physical device behind the coordinator
    actual,            \* the state the device itself is in
    responding,        \* the device answers probes and sends pushes
    \* ---- one call of the light entity's async_turn_on
    kwargs,            \* the keyword arguments of the call (no key before a call)
    lightPc,           \* 0, or the place in Order of the coordinator command awaited
    sent,              \* the commands the call has issued, in order
    pubs,              \* the commands of the call whose optimistic state was published
    effects,           \* coordinator.data.effects: the device's effects, in order
    light_result,      \* "none" | "pending" | "returned" | the exception raised
    \* ---- the identity of the session and the entry it was built from
    identity,          \* the coordinator's mac_address and serial_number
    config_entry       \* entry.data of the configured entry

lifeVars == <<hassDomain, dd_listener, dd_ref_count, lstate, stopCalls, pc, domain_data,
              listener, entryState, device, registered, cbRegistered, pollingStarted,
              runtime_data, result, preCount>>
flowVars == <<flowPc, flowStep, flow_listener, flow_stop_calls>>
fluoraVars == <<f_domain, f_listener, f_ref_count, f_entries, f_lstate, f_stopCalls, f_result>>
coordVars == <<variant, dev_state, data, last_update_success, published, cmdPc, cmd,
               cmdCalls, cmdResult, event, notified>>
pollVars == <<polling_started, state_callback_registered, dev_callbacks, dev_polling,
              pollPc, devCalls>>
refreshVars == <<refPc, resolve_ok, get_state_out, get_state_ret, refResult, refReturn>>
stepVars == <<flow_form, flow_source, flow_result, unique_id, discovered_device,
              discovered_devices, devices, new_devices, submitted, probe, entry_data,
              current_entries>>
physVars == <<actual, responding>>
lightVars == <<kwargs, lightPc, sent, pubs, effects, light_result>>
identVars == <<identity, config_entry>>
vars == <<lifeVars, flowVars, fluoraVars, coordVars, pollVars, refreshVars, stepVars,
          physVars, lightVars, identVars>>

\* ------------------------------------------------------------ domain data
\* PixelAirDomainData(): listener = None, listener_ref_count = 0
FreshListener == None
FreshRefCount == 0

\* listener_ref_count and listener as read through hass.data (absent key: the defaults)
listener_ref_count == IF hassDomain = None THEN FreshRefCount ELSE dd_ref_count[hassDomain]
shared_listener == IF hassDomain = None THEN FreshListener ELSE dd_listener[hassDomain]

\* A slot of the heap no reference reaches any more.
DomainFree(d) == d # hassDomain /\ \A e \in Entries : domain_data[e] # d
NewDomainObj == CHOOSE d \in DomainObjs : DomainFree(d) /\ \A c \in DomainObjs : DomainFree(c) => d <= c

\* get_domain_data(hass): the object under hass.data[DOMAIN], created when absent
get_domain_data == IF hassDomain = None THEN NewDomainObj ELSE hassDomain

UnusedListeners == {l \in Listeners : lstate[l] = "unused"}
NewListener == CHOOSE l \in UnusedListeners : \A k \in UnusedListeners : l <= k

\* DeviceState: brightness, hue and saturation are floats in [0.0, 1.0], here the
\* levels 0..MaxLevel; the effect ids and device modes are those the coordinator's
\* docstrings name; state_counter is the counter the library's polling compares.
MaxLevel == 1
MaxCounter == 2
Levels == 0..MaxLevel
Counters == 0..MaxCounter
Effects == {"auto", "scene:0"}
Modes == {"AUTO", "SCENE", "MANUAL"}
DeviceStates ==
    [is_on : BOOLEAN, brightness : Levels, hue : Levels, saturation : Levels,
     effect : Effects, mode : Modes, state_counter : Counters]
DefaultState ==
    [is_on |-> FALSE, brightness |-> 0, hue |-> 0, saturation |-> 0,
     effect |-> "auto", mode |-> "AUTO", state_counter |-> 0]
NoCommand == [name |-> "none", arg |-> 0]

\* ---- what the config flow handles
\* A MAC address is a sequence of characters; NoMac is a DiscoveredDevice
\* whose mac_address is None (the flow tests `if device.mac_address:`).
MaxFound == 3
NoMac == <<>>
NoId == <<>>
RawMacs == {<<"A", ":", "1">>, <<"a", ":", "2">>, <<"a", "3">>}

\* `.lower()` on one character
Lower(ch) == IF ch = "A" THEN "a" ELSE ch

\* `mac_address.lower().replace(":", "")`
NormalizedMac(m) == SelectSeq([i \in 1..Len(m) |-> Lower(m[i])], LAMBDA ch : ch # ":")

\* The devices that can answer a discovery: two with their own serial numbers,
\* a third whose serial number ties with the second's, and one whose info
\* carries no MAC address.
DiscoverableDevices ==
    {[mac_address |-> <<"A", ":", "1">>, serial_number |-> "SN-001", display_name |-> "One"],
     [mac_address |-> <<"a", ":", "2">>, serial_number |-> "SN-002", display_name |-> "Two"],
     [mac_address |-> <<"a", "3">>, serial_number |-> "SN-002", display_name |-> "Three"],
     [mac_address |-> NoMac, serial_number |-> "SN-004", display_name |-> "Four"]}
NoDevice == [mac_address |-> NoMac, serial_number |-> "", display_name |-> ""]
NoDevices == [s \in {} |-> NoDevice]
NoEntry == [title |-> "", name |-> "", mac_address |-> NoMac, serial_number |-> ""]
Serials == {d.serial_number : d \in DiscoverableDevices} \cup {"SN-999"}
KnownIds == {NormalizedMac(m) : m \in RawMacs}

\* What a discovery round can return: up to MaxFound devices, each once.
FoundLists ==
    {f \in UNION {[1..n -> DiscoverableDevices] : n \in 0..MaxFound} :
        \A i, j \in DOMAIN f : i # j => f[i] # f[j]}

\* Results of a flow step
NoResult == [type |-> "none", id |-> "none", error |-> "none"]
ShowForm(step_id, err) == [type |-> "form", id |-> step_id, error |-> err]
Abort(reason) == [type |-> "abort", id |-> reason, error |-> "none"]
CreateEntry == [type |-> "create_entry", id |-> "entry", error |-> "none"]
Raise(exc) == [type |-> "raise", id |-> exc, error |-> "none"]

\* PixelAirConfigFlow.__init__, with no entry registered.
StepInit ==
    /\ flow_form = "none"
    /\ flow_source = "none"
    /\ flow_result = NoResult
    /\ unique_id = NoId
    /\ discovered_device = NoDevice
    /\ discovered_devices = NoDevices
    /\ devices = << >>
    /\ new_devices = << >>
    /\ submitted = "none"
    /\ probe = "none"
    /\ entry_data = NoEntry
    /\ current_entries = {}

\* The physical device: in its default state, and answering.
PhysInit ==
    /\ actual = DefaultState
    /\ responding = TRUE

\* coordinator.data before the first refresh: None
NoData == [none |-> TRUE]


\* No async_turn_on has run, and the device has reported no effects yet.
LightIdle ==
    /\ kwargs = [keys |-> {}, brightness |-> 0, hs_color |-> <<0, 0>>, effect |-> "Nope"]
    /\ lightPc = 0
    /\ sent = << >>
    /\ pubs = << >>
    /\ effects = << >>
    /\ light_result = "none"

\* No coordinator has been constructed, and no entry is configured.
NoIdentity == [mac_address |-> NoMac, serial_number |-> ""]
NoConfigEntry == [name |-> "", mac_address |-> NoMac, serial_number |-> "", ip |-> "none"]
IdentInit ==
    /\ identity = NoIdentity
    /\ config_entry = NoConfigEntry

\* Before any handler ran: no domain data, no listener, no call in flight.
HostInit ==
    /\ hassDomain = None
    /\ dd_listener = [d \in DomainObjs |-> FreshListener]
    /\ dd_ref_count = [d \in DomainObjs |-> FreshRefCount]
    /\ lstate = [l \in Listeners |-> "unused"]
    /\ stopCalls = [l \in Listeners |-> 0]
    /\ pc = [e \in Entries |-> "idle"]
    /\ domain_data = [e \in Entries |-> None]
    /\ listener = [e \in Entries |-> None]
    /\ entryState = [e \in Entries |-> "not_loaded"]
    /\ device = [e \in Entries |-> None]
    /\ registered = [e \in Entries |-> FALSE]
    /\ cbRegistered = [e \in Entries |-> FALSE]
    /\ pollingStarted = [e \in Entries |-> FALSE]
    /\ runtime_data = [e \in Entries |-> FALSE]
    /\ result = "none"
    /\ preCount = 0
    /\ flowPc = "idle"
    /\ flowStep = "none"
    /\ flow_listener = "None"
    /\ flow_stop_calls = 0
    /\ f_domain = FALSE
    /\ f_listener = None
    /\ f_ref_count = 0
    /\ f_entries = {}
    /\ f_lstate = [l \in Listeners |-> "unused"]
    /\ f_stopCalls = [l \in Listeners |-> 0]
    /\ f_result = "none"
    /\ StepInit
    /\ PhysInit
    /\ LightIdle
    /\ IdentInit

\* A coordinator whose first refresh succeeded holds the state it fetched.
CoordInit(v, s) ==
    /\ variant = v
    /\ dev_state = s
    /\ data = s
    /\ last_update_success = TRUE
    /\ published = FALSE
    /\ cmdPc = "idle"
    /\ cmd = NoCommand
    /\ cmdCalls = 0
    /\ cmdResult = "none"
    /\ event = "none"
    /\ notified = 0

\* PixelAirCoordinator.__init__ leaves both flags False; after a setup whose
\* async_start_polling succeeded (on = TRUE) both are set, the callback is in
\* the device's list once and the library polls.
PollingInit(on) ==
    /\ polling_started = on
    /\ state_callback_registered = on
    /\ dev_callbacks = (IF on THEN 1 ELSE 0)
    /\ dev_polling = on
    /\ pollPc = "idle"
    /\ devCalls = {}

\* No call of _async_update_data is in flight.
RefreshInit ==
    /\ refPc = "idle"
    /\ resolve_ok = TRUE
    /\ get_state_out = "none"
    /\ get_state_ret = <<>>
    /\ refResult = "none"
    /\ refReturn = <<>>

Init ==
    /\ HostInit /\ CoordInit("pixelair", DefaultState) /\ PollingInit(FALSE)
    /\ RefreshInit


\* --------------------------------------------------- async_setup_entry
\* Locals of a call die when it returns or raises.
Return(e, r) ==
    /\ pc' = [pc EXCEPT ![e] = "idle"]
    /\ result' = r
    /\ domain_data' = [domain_data EXCEPT ![e] = None]
    /\ listener' = [listener EXCEPT ![e] = None]

\* `domain_data.listener_ref_count += 1`
Incremented(c) == c + 1

\* Lines 107-117: the increment, then the identifier check, which raises after
\* the count was taken.
AfterAcquire(e, l, ids) ==
    IF ids
    THEN /\ pc' = [pc EXCEPT ![e] = "s_connect"]
         /\ listener' = [listener EXCEPT ![e] = l]
         /\ UNCHANGED result
    ELSE /\ pc' = [pc EXCEPT ![e] = "idle"]
         /\ result' = "ConfigEntryNotReady"
         /\ listener' = [listener EXCEPT ![e] = None]

\* Mutant: the new listener is recorded in domain data before it is started.
SetupBeginStartRecordsEarly(e) ==
    /\ pc[e] = "idle"
    /\ entryState[e] = "not_loaded"
    /\ shared_listener = None
    /\ UnusedListeners # {}
    /\ LET d == get_domain_data
           l == NewListener
       IN /\ hassDomain' = d
          /\ dd_listener' = [dd_listener EXCEPT ![d] = l]
          /\ dd_ref_count' = [dd_ref_count EXCEPT ![d] = listener_ref_count]
          /\ lstate' = [lstate EXCEPT ![l] = "created"]
          /\ domain_data' = [domain_data EXCEPT ![e] = d]
          /\ listener' = [listener EXCEPT ![e] = l]
    /\ preCount' = listener_ref_count
    /\ pc' = [pc EXCEPT ![e] = "s_start"]
    /\ UNCHANGED <<stopCalls, entryState, device, registered, cbRegistered,
                   pollingStarted, runtime_data, result, flowVars, fluoraVars, coordVars,
                   pollVars, refreshVars, stepVars, physVars, lightVars, identVars>>

\* The call starts and finds no listener: it creates one and suspends in
\* `await listener.start()`.
SetupBeginStart(e) ==
    /\ pc[e] = "idle"
    /\ entryState[e] = "not_loaded"
    /\ shared_listener = None
    /\ UnusedListeners # {}
    /\ LET d == get_domain_data
           l == NewListener
       IN /\ hassDomain' = d
          /\ dd_listener' = [dd_listener EXCEPT ![d] = FreshListener]
          /\ dd_ref_count' = [dd_ref_count EXCEPT ![d] = listener_ref_count]
          /\ lstate' = [lstate EXCEPT ![l] = "created"]
          /\ domain_data' = [domain_data EXCEPT ![e] = d]
          /\ listener' = [listener EXCEPT ![e] = l]
    /\ preCount' = listener_ref_count
    /\ pc' = [pc EXCEPT ![e] = "s_start"]
    /\ UNCHANGED <<stopCalls, entryState, device, registered, cbRegistered,
                   pollingStarted, runtime_data, result, flowVars, fluoraVars, coordVars,
                   pollVars, refreshVars, stepVars, physVars, lightVars, identVars>>

\* The call starts and finds a listener in domain data: it takes it without
\* suspending.
SetupBeginShared(e, ids) ==
    /\ pc[e] = "idle"
    /\ entryState[e] = "not_loaded"
    /\ shared_listener # None
    /\ listener_ref_count < MaxRefCount
    /\ LET d == hassDomain
       IN /\ dd_ref_count' = [dd_ref_count EXCEPT ![d] = Incremented(@)]
          /\ domain_data' = [domain_data EXCEPT ![e] = IF ids THEN d ELSE None]
          /\ AfterAcquire(e, dd_listener[d], ids)
    /\ preCount' = listener_ref_count
    /\ UNCHANGED <<hassDomain, dd_listener, lstate, stopCalls, entryState, device,
                   registered, cbRegistered, pollingStarted, runtime_data, flowVars,
                   fluoraVars, coordVars, pollVars, refreshVars, stepVars, physVars,
                   lightVars, identVars>>

\* `await listener.start()` returns: the listener is recorded in the call's
\* domain-data object and the count is taken.
SetupListenerStarted(e, ids) ==
    /\ pc[e] = "s_start"
    /\ dd_ref_count[domain_data[e]] < MaxRefCount
    /\ LET d == domain_data[e]
           l == listener[e]
       IN /\ lstate' = [lstate EXCEPT ![l] = "started"]
          /\ dd_listener' = [dd_listener EXCEPT ![d] = l]
          /\ dd_ref_count' = [dd_ref_count EXCEPT ![d] = Incremented(@)]
          /\ domain_data' = [domain_data EXCEPT ![e] = IF ids THEN d ELSE None]
          /\ AfterAcquire(e, l, ids)
    /\ UNCHANGED <<hassDomain, stopCalls, entryState, device, registered, cbRegistered,
                   pollingStarted, runtime_data, preCount, flowVars, fluoraVars,
                   coordVars, pollVars, refreshVars, stepVars, physVars, lightVars, identVars>>

\* `await listener.start()` raises: nothing catches it.
SetupListenerStartFailed(e) ==
    /\ pc[e] = "s_start"
    /\ lstate' = [lstate EXCEPT ![listener[e]] = "failed"]
    /\ Return(e, "Exception")
    /\ UNCHANGED <<hassDomain, dd_listener, dd_ref_count, stopCalls, entryState, device,
                   registered, cbRegistered, pollingStarted, runtime_data, preCount,
                   flowVars, fluoraVars, coordVars, pollVars, refreshVars, stepVars, physVars,
                   lightVars, identVars>>

\* `await PixelAirDevice.from_identifiers(...)`: a device, None, or an exception;
\* the last two raise ConfigEntryNotReady.
SetupConnected(e, found) ==
    /\ pc[e] = "s_connect"
    /\ IF found
       THEN /\ device' = [device EXCEPT ![e] = listener[e]]
            /\ pc' = [pc EXCEPT ![e] = "s_register"]
            /\ UNCHANGED <<result, domain_data, listener>>
       ELSE /\ Return(e, "ConfigEntryNotReady")
            /\ UNCHANGED device
    /\ UNCHANGED <<hassDomain, dd_listener, dd_ref_count, lstate, stopCalls, entryState,
                   registered, cbRegistered, pollingStarted, runtime_data, preCount,
                   flowVars, fluoraVars, coordVars, pollVars, refreshVars, stepVars, physVars,
                   lightVars, identVars>>

\* `await device.register()`: an exception is not caught.
SetupRegistered(e, ok) ==
    /\ pc[e] = "s_register"
    /\ IF ok
       THEN /\ registered' = [registered EXCEPT ![e] = TRUE]
            /\ pc' = [pc EXCEPT ![e] = "s_get_state"]
            /\ UNCHANGED <<result, domain_data, listener, device>>
       ELSE /\ Return(e, "Exception")
            /\ device' = [device EXCEPT ![e] = None]
            /\ UNCHANGED registered
    /\ UNCHANGED <<hassDomain, dd_listener, dd_ref_count, lstate, stopCalls, entryState,
                   cbRegistered, pollingStarted, runtime_data, preCount, flowVars,
                   fluoraVars, coordVars, pollVars, refreshVars, stepVars, physVars,
                   lightVars, identVars>>

\* Mutant: the coordinator's polling is begun before its first refresh.
SetupGotStateStartsPolling(e) ==
    /\ pc[e] = "s_get_state"
    /\ pc' = [pc EXCEPT ![e] = "s_refresh"]
    /\ cbRegistered' = [cbRegistered EXCEPT ![e] = TRUE]
    /\ pollingStarted' = [pollingStarted EXCEPT ![e] = FALSE]
    /\ UNCHANGED <<hassDomain, dd_listener, dd_ref_count, lstate, stopCalls, domain_data,
                   listener, entryState, device, registered, runtime_data, result,
                   preCount, flowVars, fluoraVars, coordVars, pollVars, refreshVars,
                   stepVars, physVars, lightVars, identVars>>

\* `await device.get_state(...)` inside try/except: a failure is logged only.
\* Then the coordinator is created, with both of its flags False, and the call
\* awaits its first refresh.
SetupGotState(e) ==
    /\ pc[e] = "s_get_state"
    /\ pc' = [pc EXCEPT ![e] = "s_refresh"]
    /\ cbRegistered' = [cbRegistered EXCEPT ![e] = FALSE]
    /\ pollingStarted' = [pollingStarted EXCEPT ![e] = FALSE]
    /\ UNCHANGED <<hassDomain, dd_listener, dd_ref_count, lstate, stopCalls, domain_data,
                   listener, entryState, device, registered, runtime_data, result,
                   preCount, flowVars, fluoraVars, coordVars, pollVars, refreshVars,
                   stepVars, physVars, lightVars, identVars>>

\* `await coordinator.async_config_entry_first_refresh()`: a failed refresh
\* raises ConfigEntryNotReady. On success async_start_polling runs up to its
\* await: it registers the state callback.
SetupRefreshed(e, ok) ==
    /\ pc[e] = "s_refresh"
    /\ IF ok
       THEN /\ cbRegistered' = [cbRegistered EXCEPT ![e] = TRUE]
            /\ pc' = [pc EXCEPT ![e] = "s_polling"]
            /\ UNCHANGED <<result, domain_data, listener, device>>
       ELSE /\ Return(e, "ConfigEntryNotReady")
            /\ device' = [device EXCEPT ![e] = None]
            /\ UNCHANGED cbRegistered
    /\ UNCHANGED <<hassDomain, dd_listener, dd_ref_count, lstate, stopCalls, entryState,
                   registered, pollingStarted, runtime_data, preCount, flowVars,
                   fluoraVars, coordVars, pollVars, refreshVars, stepVars, physVars,
                   lightVars, identVars>>

\* `await self.device.start_polling(...)` inside async_start_polling: a failure
\* is logged only. Then entry.runtime_data is set and the platforms are forwarded.
SetupPollingStarted(e, ok) ==
    /\ pc[e] = "s_polling"
    /\ pollingStarted' = [pollingStarted EXCEPT ![e] = ok]
    /\ runtime_data' = [runtime_data EXCEPT ![e] = TRUE]
    /\ pc' = [pc EXCEPT ![e] = "s_forward"]
    /\ UNCHANGED <<hassDomain, dd_listener, dd_ref_count, lstate, stopCalls, domain_data,
                   listener, entryState, device, registered, cbRegistered, result,
                   preCount, flowVars, fluoraVars, coordVars, pollVars, refreshVars,
                   stepVars, physVars, lightVars, identVars>>

\* `await hass.config_entries.async_forward_entry_setups(...)`; return True.
SetupForwarded(e) ==
    /\ pc[e] = "s_forward"
    /\ entryState' = [entryState EXCEPT ![e] = "loaded"]
    /\ Return(e, "True")
    /\ UNCHANGED <<hassDomain, dd_listener, dd_ref_count, lstate, stopCalls, device,
                   registered, cbRegistered, pollingStarted, runtime_data, preCount,
                   flowVars, fluoraVars, coordVars, pollVars, refreshVars, stepVars, physVars,
                   lightVars, identVars>>


\* -------------------------------------------------- async_unload_entry
\* `await hass.config_entries.async_unload_platforms(entry, PLATFORMS)`
UnloadBegin(e) ==
    /\ pc[e] = "idle"
    /\ pc' = [pc EXCEPT ![e] = "u_platforms"]
    /\ preCount' = listener_ref_count
    /\ UNCHANGED <<hassDomain, dd_listener, dd_ref_count, lstate, stopCalls, domain_data,
                   listener, entryState, device, registered, cbRegistered, pollingStarted,
                   runtime_data, result, flowVars, fluoraVars, coordVars, pollVars,
                   refreshVars, stepVars, physVars, lightVars, identVars>>

\* `domain_data.listener_ref_count -= 1`
Decremented(c) == c - 1

\* Mutant: the comparison off by one, so that a count of 0 does not close.
LastReleaseBelowZero(c) == c < 0

\* `if domain_data.listener_ref_count <= 0:`
LastRelease(c) == c <= 0

\* Lines 185-200, reached with no await since the last one: the count is
\* decremented; at zero or below the listener is stopped (an await, taken only
\* when a listener is recorded), then listener and count are reset and the
\* domain data is popped.
Release(e) ==
    LET d == get_domain_data
        c == Decremented(listener_ref_count)
        l == shared_listener
    IN IF LastRelease(c) /\ l # None
       THEN /\ hassDomain' = d
            /\ dd_ref_count' = [dd_ref_count EXCEPT ![d] = c]
            /\ stopCalls' = [stopCalls EXCEPT ![l] = @ + 1]
            /\ lstate' = [lstate EXCEPT ![l] = IF @ = "stopped" THEN @ ELSE "stopping"]
            /\ pc' = [pc EXCEPT ![e] = "u_stop"]
            /\ domain_data' = [domain_data EXCEPT ![e] = d]
            /\ listener' = [listener EXCEPT ![e] = l]
            /\ UNCHANGED <<dd_listener, result, entryState, runtime_data, device>>
       ELSE /\ IF LastRelease(c)
               THEN /\ hassDomain' = None
                    /\ dd_listener' = [dd_listener EXCEPT ![d] = None]
                    /\ dd_ref_count' = [dd_ref_count EXCEPT ![d] = 0]
               ELSE /\ dd_ref_count' = [dd_ref_count EXCEPT ![d] = c]
                    /\ UNCHANGED <<hassDomain, dd_listener>>
            /\ Return(e, "True")
            /\ entryState' = [entryState EXCEPT ![e] = "not_loaded"]
            /\ runtime_data' = [runtime_data EXCEPT ![e] = FALSE]
            /\ device' = [device EXCEPT ![e] = None]
            /\ UNCHANGED <<lstate, stopCalls>>

\* async_unload_platforms returns: False ends the call; True with runtime data
\* goes on to coordinator.async_stop_polling(), which awaits device.stop_polling()
\* only when polling was started and otherwise removes the callback at once.
UnloadPlatforms(e, unload_ok) ==
    /\ pc[e] = "u_platforms"
    /\ IF ~unload_ok
       THEN /\ Return(e, "False")
            /\ UNCHANGED <<hassDomain, dd_listener, dd_ref_count, lstate, stopCalls,
                           entryState, device, cbRegistered, runtime_data>>
       ELSE IF runtime_data[e]
       THEN /\ IF pollingStarted[e]
               THEN /\ pc' = [pc EXCEPT ![e] = "u_stop_polling"]
                    /\ UNCHANGED cbRegistered
               ELSE /\ pc' = [pc EXCEPT ![e] = "u_unregister"]
                    /\ cbRegistered' = [cbRegistered EXCEPT ![e] = FALSE]
            /\ UNCHANGED <<hassDomain, dd_listener, dd_ref_count, lstate, stopCalls,
                           domain_data, listener, entryState, device, runtime_data,
                           result>>
       ELSE /\ Release(e)
            /\ UNCHANGED cbRegistered
    /\ UNCHANGED <<registered, pollingStarted, preCount, flowVars, fluoraVars, coordVars,
                   pollVars, refreshVars, stepVars, physVars, lightVars, identVars>>

\* `await self.device.stop_polling()` returns or raises (logged only); the state
\* callback is removed either way.
UnloadPollingStopped(e, ok) ==
    /\ pc[e] = "u_stop_polling"
    /\ pollingStarted' = [pollingStarted EXCEPT ![e] = ~ok]
    /\ cbRegistered' = [cbRegistered EXCEPT ![e] = FALSE]
    /\ pc' = [pc EXCEPT ![e] = "u_unregister"]
    /\ UNCHANGED <<hassDomain, dd_listener, dd_ref_count, lstate, stopCalls, domain_data,
                   listener, entryState, device, registered, runtime_data, result,
                   preCount, flowVars, fluoraVars, coordVars, pollVars, refreshVars,
                   stepVars, physVars, lightVars, identVars>>

\* `await runtime_data.device.unregister()` returns; the release follows.
UnloadUnregistered(e) ==
    /\ pc[e] = "u_unregister"
    /\ registered' = [registered EXCEPT ![e] = FALSE]
    /\ Release(e)
    /\ UNCHANGED <<cbRegistered, pollingStarted, preCount, flowVars, fluoraVars,
                   coordVars, pollVars, refreshVars, stepVars, physVars, lightVars, identVars>>

\* Mutant: the stopped listener stays recorded and the domain data stays.
UnloadListenerStoppedKeepsHandle(e) ==
    /\ pc[e] = "u_stop"
    /\ lstate' = [lstate EXCEPT ![listener[e]] = "stopped"]
    /\ dd_ref_count' = [dd_ref_count EXCEPT ![domain_data[e]] = 0]
    /\ Return(e, "True")
    /\ entryState' = [entryState EXCEPT ![e] = "not_loaded"]
    /\ runtime_data' = [runtime_data EXCEPT ![e] = FALSE]
    /\ device' = [device EXCEPT ![e] = None]
    /\ UNCHANGED <<hassDomain, dd_listener, stopCalls, registered, cbRegistered,
                   pollingStarted, preCount, flowVars, fluoraVars, coordVars, pollVars,
                   refreshVars, stepVars, physVars, lightVars, identVars>>

\* `await domain_data.listener.stop()` returns: listener = None, count = 0,
\* hass.data.pop(DOMAIN, None); return True.
UnloadListenerStopped(e) ==
    /\ pc[e] = "u_stop"
    /\ LET d == domain_data[e]
       IN /\ lstate' = [lstate EXCEPT ![listener[e]] = "stopped"]
          /\ dd_listener' = [dd_listener EXCEPT ![d] = None]
          /\ dd_ref_count' = [dd_ref_count EXCEPT ![d] = 0]
          /\ hassDomain' = None
    /\ Return(e, "True")
    /\ entryState' = [entryState EXCEPT ![e] = "not_loaded"]
    /\ runtime_data' = [runtime_data EXCEPT ![e] = FALSE]
    /\ device' = [device EXCEPT ![e] = None]
    /\ UNCHANGED <<stopCalls, registered, cbRegistered, pollingStarted, preCount,
                   flowVars, fluoraVars, coordVars, pollVars, refreshVars, stepVars, physVars,
                   lightVars, identVars>>


\* ------------------------------------------- config flow: its own listener
\* async_step_dhcp / async_step_discovery reach `await self._get_listener()`:
\* self._listener is None, so a UDPListener is created, assigned, and started.
FlowGetListener(step) ==
    /\ flowPc = "idle"
    /\ flow_listener = "None"
    /\ flowStep' = step
    /\ flow_listener' = "created"
    /\ flow_stop_calls' = 0
    /\ flowPc' = "f_start"
    /\ UNCHANGED <<lifeVars, fluoraVars, coordVars, pollVars, refreshVars, stepVars, physVars,
                   lightVars, identVars>>

\* `await self._listener.start()` returns, and the step awaits its probe; or it
\* raises, and the step's `except Exception` awaits _cleanup_listener().
FlowListenerStarted(ok) ==
    /\ flowPc = "f_start"
    /\ IF ok
       THEN /\ flow_listener' = "started"
            /\ flowPc' = IF flowStep = "dhcp" THEN "f_verify" ELSE "f_discover"
            /\ UNCHANGED flow_stop_calls
       ELSE /\ flow_listener' = "stopping"
            /\ flow_stop_calls' = flow_stop_calls + 1
            /\ flowPc' = "f_cleanup"
    /\ UNCHANGED <<flowStep, lifeVars, fluoraVars, coordVars, pollVars, refreshVars,
                   stepVars, physVars, lightVars, identVars>>

\* `await discovery.verify_device(...)`: a device goes on to get_device_info;
\* None, a timeout or an error go to _cleanup_listener().
FlowVerified(found) ==
    /\ flowPc = "f_verify"
    /\ IF found
       THEN /\ flowPc' = "f_info"
            /\ UNCHANGED <<flow_listener, flow_stop_calls>>
       ELSE /\ flowPc' = "f_cleanup"
            /\ flow_listener' = "stopping"
            /\ flow_stop_calls' = flow_stop_calls + 1
    /\ UNCHANGED <<flowStep, lifeVars, fluoraVars, coordVars, pollVars, refreshVars,
                   stepVars, physVars, lightVars, identVars>>

\* Mutant: the step returns after its probe without _cleanup_listener().
FlowProbedNoCleanup ==
    /\ flowPc \in {"f_info", "f_discover"}
    /\ flowPc' = "idle"
    /\ UNCHANGED <<flowStep, flow_listener, flow_stop_calls, lifeVars, fluoraVars, coordVars,
                   pollVars, refreshVars, stepVars, physVars, lightVars, identVars>>

\* `await discovery.get_device_info(...)` or `await discovery.discover_with_info(...)`
\* returns or raises: `await self._cleanup_listener()` follows on both paths.
FlowProbed ==
    /\ flowPc \in {"f_info", "f_discover"}
    /\ flowPc' = "f_cleanup"
    /\ flow_listener' = "stopping"
    /\ flow_stop_calls' = flow_stop_calls + 1
    /\ UNCHANGED <<flowStep, lifeVars, fluoraVars, coordVars, pollVars, refreshVars,
                   stepVars, physVars, lightVars, identVars>>

\* `await self._listener.stop()` returns; self._listener = None. What the
\* step does after it has no await: a later _cleanup_listener() in the step's
\* `except` finds self._listener None and stops nothing.
FlowCleanedUp ==
    /\ flowPc = "f_cleanup"
    /\ flow_listener' = "None"
    /\ UNCHANGED flow_stop_calls
    /\ flowPc' = "idle"
    /\ flowStep' = "none"
    /\ UNCHANGED <<lifeVars, fluoraVars, coordVars, pollVars, refreshVars, stepVars, physVars,
                   lightVars, identVars>>

\* ----------------------------------------------- config flow: its steps
\* One flow object, one step per action: the flow manager runs the steps of a
\* flow one after the other, and the outcomes of the awaited discovery calls
\* are the step's inputs. The flow's listener is created and cleaned up
\* inside the step (the Flow actions above follow it await by await).

\* Mutant: no device counts as configured.
is_configured_never(normalized_mac, existing) == FALSE

\* `is_configured = any(entry.unique_id == normalized_mac for entry in existing)`
is_configured(normalized_mac, existing) == normalized_mac \in existing

\* The filter loop of async_step_discovery: a device without a MAC address is
\* skipped, the others are kept when they are not configured.
RECURSIVE Filtered(_, _)
Filtered(found, existing) ==
    IF found = << >> THEN << >>
    ELSE LET dev == Head(found)
             rest == Filtered(Tail(found), existing)
         IN IF dev.mac_address # NoMac
                /\ ~is_configured(NormalizedMac(dev.mac_address), existing)
            THEN <<dev>> \o rest
            ELSE rest

\* The loop awaits async_set_unique_id for every device that has a MAC
\* address: the flow's unique id is left at the last of them.
RECURSIVE LoopUniqueId(_, _)
LoopUniqueId(found, id) ==
    IF found = << >> THEN id
    ELSE LoopUniqueId(Tail(found),
                      IF Head(found).mac_address # NoMac
                      THEN NormalizedMac(Head(found).mac_address) ELSE id)

\* Mutant: one or more new devices go to confirmation.
only_one_or_more(new) == Len(new) >= 1

\* `if len(new_devices) == 1:`
only_one(new) == Len(new) = 1

\* `{device.serial_number: device for device in new_devices}`: of two devices
\* with one serial number the later one stays.
BySerial(new) ==
    [s \in {new[i].serial_number : i \in DOMAIN new} |->
        LET last == CHOOSE i \in DOMAIN new :
                        /\ new[i].serial_number = s
                        /\ \A j \in DOMAIN new : new[j].serial_number = s => j <= i
        IN new[last]]

\* Mutant: the selection takes the first device of the dict.
GetFirst(by_serial, serial) ==
    IF serial \in DOMAIN by_serial
    THEN by_serial[CHOOSE s \in DOMAIN by_serial : TRUE] ELSE NoDevice

\* `self._discovered_devices.get(serial)`
Get(by_serial, serial) ==
    IF serial \in DOMAIN by_serial THEN by_serial[serial] ELSE NoDevice

\* Mutant: the entry stores the MAC address as the device reported it.
EntryMacRaw(dev) == dev.mac_address

\* async_step_confirm: `normalized_mac = ...mac_address.lower().replace(":", "")`
EntryMac(dev) == NormalizedMac(dev.mac_address)

\* Mutant: a failed discovery ends the flow.
DiscoveryFailedAborts(err) == Abort("cannot_connect")

\* async_step_discovery, `except Exception as err:`: the user form again.
DiscoveryFailed(err) == ShowForm("user", "cannot_connect")

\* Mutant: a failed probe propagates.
ProbeFailedRaises(err) == Raise(err)

\* async_step_dhcp, `except asyncio.TimeoutError:` / `except Exception as err:`
ProbeFailed(err) == Abort("not_pixelair_device")

\* A flow object is created by the user: async_step_user(None) shows the form.
StepUser ==
    /\ flow_form \in {"none", "ended"}
    /\ flow_form' = "user"
    /\ flow_source' = "user"
    /\ flow_result' = ShowForm("user", "none")
    /\ unique_id' = NoId
    /\ discovered_device' = NoDevice
    /\ discovered_devices' = NoDevices
    /\ devices' = << >>
    /\ new_devices' = << >>
    /\ submitted' = "none"
    /\ probe' = "none"
    /\ entry_data' = NoEntry
    /\ UNCHANGED <<current_entries, lifeVars, flowVars, fluoraVars, coordVars, pollVars,
                   refreshVars, physVars, lightVars, identVars>>

\* async_step_confirm(None) with self._discovered_device set: the form.
ConfirmForm == ShowForm("confirm", "none")

\* The user form is submitted: async_step_user calls async_step_discovery.
\* out is how the awaited calls went: the listener's start or
\* discover_with_info raised, or discover_with_info returned the list found.
StepDiscovery(out, found) ==
    /\ flow_form = "user"
    /\ submitted' = "none"
    /\ probe' = out
    /\ UNCHANGED <<flow_source, entry_data, current_entries>>
    /\ IF out # "ok"
       THEN /\ flow_result' = DiscoveryFailed(out)
            /\ flow_form' = (IF DiscoveryFailed(out).type = "form" THEN "user" ELSE "ended")
            /\ devices' = << >>
            /\ new_devices' = << >>
            /\ UNCHANGED <<unique_id, discovered_device, discovered_devices>>
       ELSE LET new == Filtered(found, current_entries)
            IN /\ devices' = found
               /\ new_devices' = (IF found = << >> THEN << >> ELSE new)
               /\ IF found = << >>
                  THEN /\ flow_result' = Abort("no_devices_found")
                       /\ flow_form' = "ended"
                       /\ UNCHANGED <<unique_id, discovered_device, discovered_devices>>
                  ELSE IF new = << >>
                  THEN /\ flow_result' = Abort("all_devices_configured")
                       /\ flow_form' = "ended"
                       /\ unique_id' = LoopUniqueId(found, unique_id)
                       /\ UNCHANGED <<discovered_device, discovered_devices>>
                  ELSE IF only_one(new)
                  THEN /\ discovered_device' = new[1]
                       /\ unique_id' = NormalizedMac(new[1].mac_address)
                       /\ flow_result' = ConfirmForm
                       /\ flow_form' = "confirm"
                       /\ UNCHANGED discovered_devices
                  ELSE /\ discovered_devices' = BySerial(new)
                       /\ unique_id' = LoopUniqueId(found, unique_id)
                       /\ flow_result' = ShowForm("select_device", "none")
                       /\ flow_form' = "select_device"
                       /\ UNCHANGED discovered_device
    /\ UNCHANGED <<lifeVars, flowVars, fluoraVars, coordVars, pollVars, refreshVars,
                   physVars, lightVars, identVars>>

\* The selection form is submitted with a serial number.
\* _abort_if_unique_id_configured raises AbortFlow("already_configured"),
\* which ends the flow with that abort.
StepSelectDevice(serial) ==
    /\ flow_form = "select_device"
    /\ submitted' = serial
    /\ LET dev == Get(discovered_devices, serial)
       IN /\ discovered_device' = dev
          /\ IF dev = NoDevice
             THEN /\ flow_result' = Abort("device_not_found")
                  /\ flow_form' = "ended"
                  /\ UNCHANGED unique_id
             ELSE /\ unique_id' = NormalizedMac(dev.mac_address)
                  /\ IF is_configured(NormalizedMac(dev.mac_address), current_entries)
                     THEN /\ flow_result' = Abort("already_configured")
                          /\ flow_form' = "ended"
                     ELSE /\ flow_result' = ConfirmForm
                          /\ flow_form' = "confirm"
    /\ UNCHANGED <<flow_source, discovered_devices, devices, new_devices, probe, entry_data,
                   current_entries, lifeVars, flowVars, fluoraVars, coordVars, pollVars,
                   refreshVars, physVars, lightVars, identVars>>

\* The confirmation form is submitted: the entry is created under the flow's
\* unique id. A device whose mac_address is None makes `.lower()` raise
\* AttributeError, and the form stays.
StepConfirm ==
    /\ flow_form = "confirm"
    /\ IF discovered_device.mac_address = NoMac
       THEN /\ flow_result' = Raise("AttributeError")
            /\ UNCHANGED <<flow_form, entry_data, current_entries>>
       ELSE /\ flow_result' = CreateEntry
            /\ flow_form' = "ended"
            /\ entry_data' = [title |-> discovered_device.display_name,
                              name |-> discovered_device.display_name,
                              mac_address |-> EntryMac(discovered_device),
                              serial_number |-> discovered_device.serial_number]
            /\ current_entries' = current_entries \cup {unique_id}
    /\ UNCHANGED <<flow_source, unique_id, discovered_device, discovered_devices, devices,
                   new_devices, submitted, probe, lifeVars, flowVars, fluoraVars, coordVars,
                   pollVars, refreshVars, physVars, lightVars, identVars>>

\* What the probe of async_step_dhcp can come to: the listener's start,
\* verify_device or get_device_info raised, verify_device returned None, or
\* a device answered ("ok").
ProbeErrors == {"start:OSError", "verify:TimeoutError", "verify:OSError",
                "info:TimeoutError", "info:OSError"}
ProbeOutcomes == ProbeErrors \cup {"verify:None", "ok"}

\* A flow object is created by DHCP discovery of the address whose MAC is
\* macaddress: async_step_dhcp.
StepDhcp(macaddress, out, dev) ==
    /\ flow_form \in {"none", "ended"}
    /\ flow_source' = "dhcp"
    /\ unique_id' = NormalizedMac(macaddress)
    /\ discovered_devices' = NoDevices
    /\ devices' = << >>
    /\ new_devices' = << >>
    /\ submitted' = "none"
    /\ entry_data' = NoEntry
    /\ probe' = (IF is_configured(NormalizedMac(macaddress), current_entries)
                 THEN "none" ELSE out)
    /\ IF is_configured(NormalizedMac(macaddress), current_entries)
       THEN /\ flow_result' = Abort("already_configured")
            /\ flow_form' = "ended"
            /\ discovered_device' = NoDevice
       ELSE IF out \in ProbeErrors
       THEN /\ flow_result' = ProbeFailed(out)
            /\ flow_form' = "ended"
            /\ discovered_device' = NoDevice
       ELSE IF out = "verify:None"
       THEN /\ flow_result' = Abort("not_pixelair_device")
            /\ flow_form' = "ended"
            /\ discovered_device' = NoDevice
       ELSE IF /\ dev.mac_address # NoMac
               /\ NormalizedMac(dev.mac_address) # NormalizedMac(macaddress)
       THEN /\ flow_result' = Abort("not_pixelair_device")
            /\ flow_form' = "ended"
            /\ discovered_device' = NoDevice
       ELSE /\ discovered_device' = dev
            /\ flow_result' = ConfirmForm
            /\ flow_form' = "confirm"
    /\ UNCHANGED <<current_entries, lifeVars, flowVars, fluoraVars, coordVars, pollVars,
                   refreshVars, physVars, lightVars, identVars>>

\* Another flow registers an entry under the unique id `id` while this flow
\* waits at a form.
OtherFlowCreatesEntry(id) ==
    /\ flow_form \in {"user", "select_device", "confirm"}
    /\ id \notin current_entries
    /\ current_entries' = current_entries \cup {id}
    /\ UNCHANGED <<flow_form, flow_source, flow_result, unique_id, discovered_device,
                   discovered_devices, devices, new_devices, submitted, probe, entry_data,
                   lifeVars, flowVars, fluoraVars, coordVars, pollVars, refreshVars,
                   physVars, lightVars, identVars>>

DiscoveryErrors == {"start:OSError", "discover:TimeoutError", "discover:OSError"}

StepNext ==
    \/ StepUser
    \/ \E out \in DiscoveryErrors : StepDiscovery(out, << >>)
    \/ \E found \in FoundLists : StepDiscovery("ok", found)
    \/ \E serial \in Serials : StepSelectDevice(serial)
    \/ StepConfirm
    \/ \E m \in RawMacs : \E out \in ProbeOutcomes : \E d \in DiscoverableDevices :
            StepDhcp(m, out, d)
    \/ \E id \in KnownIds : OtherFlowCreatesEntry(id)

StepSpec == Init /\ [][StepNext]_vars

\* ------------------------------------------------------- fluora variant
\* The fluora handlers keep their domain data in a dict and always reach it
\* through hass.data[DOMAIN]; they are modelled one whole call per step, the
\* outcome of the awaited library calls being the step's input.
FluoraUnused == {l \in Listeners : f_lstate[l] = "unused"}
FluoraNewListener == CHOOSE l \in FluoraUnused : \A k \in FluoraUnused : l <= k

SetupOutcomes == {"start_error", "no_ids", "no_device", "register_error", "refresh_failed", "ok"}

\* fluora async_setup_entry
FluoraSetup(e, out) ==
    /\ e \notin f_entries
    /\ f_ref_count < MaxRefCount
    /\ f_domain' = TRUE
    /\ IF f_listener = None
       THEN /\ FluoraUnused # {}
            /\ IF out = "start_error"
               THEN /\ f_lstate' = [f_lstate EXCEPT ![FluoraNewListener] = "failed"]
                    /\ UNCHANGED f_listener
               ELSE /\ f_lstate' = [f_lstate EXCEPT ![FluoraNewListener] = "started"]
                    /\ f_listener' = FluoraNewListener
       ELSE /\ out # "start_error"
            /\ UNCHANGED <<f_lstate, f_listener>>
    /\ f_ref_count' = IF out = "start_error" THEN f_ref_count ELSE f_ref_count + 1
    /\ f_entries' = IF out = "ok" THEN f_entries \cup {e} ELSE f_entries
    /\ f_result' = CASE out = "ok" -> "setup:True"
                     [] out \in {"start_error", "register_error"} -> "setup:Exception"
                     [] OTHER -> "setup:ConfigEntryNotReady"
    /\ UNCHANGED <<f_stopCalls, lifeVars, flowVars, coordVars, pollVars, refreshVars,
                   stepVars, physVars, lightVars, identVars>>

\* `hass.data[DOMAIN]...`: a KeyError when the domain data was popped
FluoraDomainLookupFails == ~f_domain

\* `if len(hass.data[DOMAIN]) <= 2:` with the two listener keys always present
FluoraOnlyListenerKeys(entries) == Cardinality(entries) + 2 <= 2

\* fluora async_unload_entry
FluoraUnload(e, unload_ok) ==
    /\ IF ~unload_ok
       THEN /\ f_result' = "unload:False"
            /\ UNCHANGED <<f_domain, f_listener, f_ref_count, f_entries, f_lstate, f_stopCalls>>
       ELSE IF FluoraDomainLookupFails
       THEN /\ f_result' = "unload:KeyError"
            /\ UNCHANGED <<f_domain, f_listener, f_ref_count, f_entries, f_lstate, f_stopCalls>>
       ELSE LET c == Decremented(f_ref_count)
                rest == f_entries \ {e}
            IN /\ f_entries' = rest
               /\ f_result' = "unload:True"
               /\ IF LastRelease(c)
                  THEN /\ IF f_listener # None
                          THEN /\ f_lstate' = [f_lstate EXCEPT ![f_listener] = "stopped"]
                               /\ f_stopCalls' = [f_stopCalls EXCEPT ![f_listener] = @ + 1]
                          ELSE UNCHANGED <<f_lstate, f_stopCalls>>
                       /\ f_listener' = None
                       /\ f_ref_count' = 0
                       /\ f_domain' = ~FluoraOnlyListenerKeys(rest)
                  ELSE /\ f_ref_count' = c
                       /\ UNCHANGED <<f_domain, f_listener, f_lstate, f_stopCalls>>
    /\ UNCHANGED <<lifeVars, flowVars, coordVars, pollVars, refreshVars, stepVars, physVars,
                   lightVars, identVars>>

\* Any sequence of fluora setup and unload calls, one call at a time; unload
\* may be called for any entry, loaded or not.
FluoraNext ==
    \/ \E e \in Entries : \E out \in SetupOutcomes : FluoraSetup(e, out)
    \/ \E e \in Entries : \E ok \in BOOLEAN : FluoraUnload(e, ok)

FluoraSpec == Init /\ [][FluoraNext]_vars

\* ------------------------------------------------- coordinator commands
Commands ==
    {[name |-> n, arg |-> 0] : n \in {"turn_on", "turn_off"}}
        \cup {[name |-> n, arg |-> v] : n \in {"set_brightness", "set_hue", "set_saturation"},
                                        v \in Levels}
        \cup {[name |-> "set_effect", arg |-> x] : x \in Effects}
        \cup {[name |-> "set_mode", arg |-> m] : m \in Modes}

\* What a device command can raise.
DeviceErrors == {"TimeoutError", "OSError"}

\* The library's optimistic update of device.state by a command that succeeded
\* ("The library updates its internal state optimistically after control
\* commands").
Optimistic(s, c) ==
    CASE c.name = "turn_on" -> [s EXCEPT !.is_on = TRUE]
      [] c.name = "turn_off" -> [s EXCEPT !.is_on = FALSE]
      [] c.name = "set_brightness" -> [s EXCEPT !.brightness = c.arg]
      [] c.name = "set_hue" -> [s EXCEPT !.hue = c.arg]
      [] c.name = "set_saturation" -> [s EXCEPT !.saturation = c.arg]
      [] c.name = "set_effect" -> [s EXCEPT !.effect = c.arg]
      [] c.name = "set_mode" -> [s EXCEPT !.mode = c.arg]

\* DataUpdateCoordinator.async_set_updated_data(s): data and the success flag
\* are set and the listeners are notified.
Publish(s) ==
    /\ data' = s
    /\ last_update_success' = TRUE
    /\ published' = TRUE
    /\ notified' = 1 - notified

\* A step that publishes nothing.
NoPublish ==
    /\ published' = FALSE
    /\ UNCHANGED <<data, last_update_success, notified>>

\* Mutant: the command returns without publishing.
UpdateOptimisticStateSkipped == NoPublish

\* _update_optimistic_state: self.async_set_updated_data(self.device.state)
UpdateOptimisticState == Publish(dev_state')

\* A coordinator command (async_turn_on ... async_set_mode) is called: it
\* awaits the device command.
CmdCall(c) ==
    /\ cmdPc = "idle"
    /\ cmdPc' = "awaiting"
    /\ cmd' = c
    /\ cmdCalls' = 1
    /\ cmdResult' = "pending"
    /\ NoPublish
    /\ event' = "none"
    /\ UNCHANGED <<variant, dev_state, lifeVars, flowVars, fluoraVars, pollVars,
                   refreshVars, stepVars, physVars, lightVars, identVars>>

\* The device command returns: the library has updated device.state, the
\* coordinator publishes it, and the call returns.
CmdSucceeded ==
    /\ cmdPc = "awaiting"
    /\ dev_state' = Optimistic(dev_state, cmd)
    /\ UpdateOptimisticState
    /\ cmdPc' = "idle"
    /\ cmdResult' = "returned"
    /\ cmd' = NoCommand
    /\ event' = "optimistic"
    /\ UNCHANGED <<variant, cmdCalls, lifeVars, flowVars, fluoraVars, pollVars,
                   refreshVars, stepVars, physVars, lightVars, identVars>>

\* Mutant: the failure is wrapped in another exception.
RaisedWrapped(err) == "HomeAssistantError"

\* pixelair: no handler around the awaited command, the exception propagates;
\* fluora: `except Exception as err:` logs and re-raises with a bare `raise`.
Raised(err) == err

\* The device command raises: the call ends with that exception, before
\* _update_optimistic_state is reached.
CmdFailed(err) ==
    /\ cmdPc = "awaiting"
    /\ cmdPc' = "idle"
    /\ cmdResult' = Raised(err)
    /\ cmd' = NoCommand
    /\ NoPublish
    /\ event' = "none"
    /\ UNCHANGED <<variant, dev_state, cmdCalls, lifeVars, flowVars, fluoraVars,
                   pollVars, refreshVars, stepVars, physVars, lightVars, identVars>>

\* Mutant: the callback keeps the brightness the coordinator already shows.
OnDeviceStateChangeKeepsBrightness(new_state) ==
    Publish([new_state EXCEPT !.brightness = data.brightness])

\* Mutant: the callback only stores the state for a later tick to publish.
OnDeviceStateChangeDeferred(new_state) == NoPublish

\* _on_device_state_change(device, new_state):
\* self.async_set_updated_data(new_state)
OnDeviceStateChange(new_state) == Publish(new_state)

\* The library has a new state for the device: it keeps it as device.state and
\* calls the state callbacks in the device's list.
Deliver(s) ==
    /\ dev_state' = s
    /\ IF dev_callbacks > 0 THEN OnDeviceStateChange(s) ELSE NoPublish

\* A push from the device: the library delivers the state it carries.
Push(s) ==
    /\ Deliver(s)
    /\ event' = "push"
    /\ UNCHANGED <<variant, cmdPc, cmd, cmdCalls, cmdResult, lifeVars, flowVars,
                   fluoraVars, pollVars, refreshVars, stepVars, physVars, lightVars, identVars>>

\* What one report of the device can carry when the library holds s: the
\* state after attribute f became v, under counter k.
Attributes == {"is_on", "brightness", "hue", "saturation", "effect", "mode"}
AttributeValues(f) ==
    CASE f = "is_on" -> BOOLEAN
      [] f \in {"brightness", "hue", "saturation"} -> Levels
      [] f = "effect" -> Effects
      [] f = "mode" -> Modes
Changed(s, f, v, k) == [s EXCEPT ![f] = v, !.state_counter = k]

CmdInit ==
    /\ HostInit
    /\ \E v \in {"pixelair", "fluora"} : CoordInit(v, DefaultState)
    /\ PollingInit(TRUE)
    /\ RefreshInit

CmdNext ==
    \/ \E c \in Commands : CmdCall(c)
    \/ CmdSucceeded
    \/ \E err \in DeviceErrors : CmdFailed(err)
    \/ \E f \in Attributes : \E v \in AttributeValues(f) : \E k \in Counters :
            Push(Changed(dev_state, f, v, k))

CmdSpec == CmdInit /\ [][CmdNext]_vars

\* --------------------------------------------------- coordinator polling
\* self.device.add_state_callback(self._on_device_state_change)
AddStateCallback(n) == n + 1

\* Mutant: async_start_polling adds the callback without looking at
\* _state_callback_registered.
StartRegistersAlways == TRUE

\* `if not self._state_callback_registered:`
StartRegisters == ~state_callback_registered

\* Mutant: async_stop_polling calls device.stop_polling() whatever the flag.
StopAwaitsAlways == TRUE

\* `if self._polling_started:` of async_stop_polling
StopAwaits == polling_started

\* async_start_polling up to its await: it returns at once when polling is
\* recorded as started; otherwise it registers the state callback, unless
\* registered, and awaits device.start_polling(interval=POLL_INTERVAL).
StartPollingCall ==
    /\ pollPc = "idle"
    /\ IF polling_started
       THEN /\ devCalls' = {}
            /\ UNCHANGED <<pollPc, state_callback_registered, dev_callbacks>>
       ELSE /\ pollPc' = "starting"
            /\ IF StartRegisters
               THEN /\ dev_callbacks' = AddStateCallback(dev_callbacks)
                    /\ state_callback_registered' = TRUE
                    /\ devCalls' = {"add_state_callback", "start_polling"}
               ELSE /\ devCalls' = {"start_polling"}
                    /\ UNCHANGED <<state_callback_registered, dev_callbacks>>
    /\ NoPublish
    /\ event' = "start_call"
    /\ UNCHANGED <<variant, dev_state, cmdPc, cmd, cmdCalls, cmdResult,
                   polling_started, dev_polling, lifeVars, flowVars, fluoraVars,
                   refreshVars, stepVars, physVars, lightVars, identVars>>

\* device.start_polling returns (the library polls, _polling_started = True) or
\* raises (logged only; whether the library polls is `running`).
StartPollingDone(ok, running) ==
    /\ pollPc = "starting"
    /\ pollPc' = "idle"
    /\ IF ok
       THEN /\ polling_started' = TRUE
            /\ dev_polling' = TRUE
       ELSE /\ dev_polling' = running
            /\ UNCHANGED polling_started
    /\ NoPublish
    /\ event' = "start_done"
    /\ UNCHANGED <<variant, dev_state, cmdPc, cmd, cmdCalls, cmdResult,
                   state_callback_registered, dev_callbacks, devCalls, lifeVars,
                   flowVars, fluoraVars, refreshVars, stepVars, physVars, lightVars, identVars>>

\* The second half of async_stop_polling: the state callback is removed when
\* it is registered.
RemoveStateCallback(calls) ==
    IF state_callback_registered
    THEN /\ dev_callbacks' = dev_callbacks - 1
         /\ state_callback_registered' = FALSE
         /\ devCalls' = calls \cup {"remove_state_callback"}
    ELSE /\ devCalls' = calls
         /\ UNCHANGED <<state_callback_registered, dev_callbacks>>

\* async_stop_polling up to its await: with polling recorded as started it
\* awaits device.stop_polling(); otherwise it goes on to the callback and
\* returns.
StopPollingCall ==
    /\ pollPc = "idle"
    /\ IF StopAwaits
       THEN /\ pollPc' = "stopping"
            /\ devCalls' = {"stop_polling"}
            /\ UNCHANGED <<state_callback_registered, dev_callbacks>>
       ELSE /\ RemoveStateCallback({})
            /\ UNCHANGED pollPc
    /\ NoPublish
    /\ event' = "stop_call"
    /\ UNCHANGED <<variant, dev_state, cmdPc, cmd, cmdCalls, cmdResult,
                   polling_started, dev_polling, lifeVars, flowVars, fluoraVars,
                   refreshVars, stepVars, physVars, lightVars, identVars>>

\* device.stop_polling returns (_polling_started = False) or raises (logged
\* only, the flag stays; whether the library still polls is `running`); the
\* callback is removed either way and the call returns.
StopPollingDone(ok, running) ==
    /\ pollPc = "stopping"
    /\ pollPc' = "idle"
    /\ IF ok
       THEN /\ polling_started' = FALSE
            /\ dev_polling' = FALSE
       ELSE /\ dev_polling' = running
            /\ UNCHANGED polling_started
    /\ RemoveStateCallback(devCalls)
    /\ NoPublish
    /\ event' = "stop_done"
    /\ UNCHANGED <<variant, dev_state, cmdPc, cmd, cmdCalls, cmdResult,
                   lifeVars, flowVars, fluoraVars, refreshVars, stepVars, physVars,
                   lightVars, identVars>>

\* One tick of the library's poll ("Only fetches full state when state_counter
\* changes"): the probe shows the counter of the device's state s; when it is
\* the counter of device.state nothing is fetched, otherwise s is fetched and
\* delivered.
Tick(s) ==
    /\ dev_polling
    /\ IF s.state_counter = dev_state.state_counter
       THEN /\ event' = "tick"
            /\ NoPublish
            /\ UNCHANGED dev_state
       ELSE /\ event' = "fetch"
            /\ Deliver(s)
    /\ UNCHANGED <<variant, cmdPc, cmd, cmdCalls, cmdResult, lifeVars, flowVars,
                   fluoraVars, pollVars, refreshVars, stepVars, physVars, lightVars, identVars>>

\* The polling specification: one coordinator from its construction, with
\* reports and commands that change the brightness only.
PollStates ==
    {s \in DeviceStates : \A f \in Attributes \ {"brightness"} : s[f] = DefaultState[f]}
PollCommands == {c \in Commands : c.name = "set_brightness"}

PollInit ==
    /\ HostInit
    /\ \E v \in {"pixelair", "fluora"} : CoordInit(v, DefaultState)
    /\ PollingInit(FALSE)
    /\ RefreshInit

PollNext ==
    \/ StartPollingCall
    \/ \E ok \in BOOLEAN : \E running \in BOOLEAN : StartPollingDone(ok, running)
    \/ StopPollingCall
    \/ \E ok \in BOOLEAN : \E running \in BOOLEAN : StopPollingDone(ok, running)
    \/ \E s \in PollStates : Push(s)
    \/ \E s \in PollStates : Tick(s)
    \/ \E c \in PollCommands : CmdCall(c)
    \/ CmdSucceeded

PollSpec == PollInit /\ [][PollNext]_vars

\* The fluora setup with the coordinator it creates and the device behind it:
\* FluoraDeviceCoordinator.__init__ leaves both flags False, and neither
\* async_setup_entry nor the light platform of fluora calls
\* async_start_polling, so the flags, the device's callback list and the
\* library's poll stay as constructed; the device of a loaded entry is
\* registered with the listener, and its pushes reach the library.
FluoraDeviceInit ==
    /\ HostInit
    /\ CoordInit("fluora", DefaultState)
    /\ PollingInit(FALSE)
    /\ RefreshInit

FluoraPush(s) == f_entries # {} /\ Push(s)

FluoraDeviceNext ==
    \/ FluoraNext
    \/ \E s \in PollStates : FluoraPush(s)

FluoraDeviceSpec == FluoraDeviceInit /\ [][FluoraDeviceNext]_vars

\* ------------------------------------------------ _async_update_data
\* Mutant: a failed resolve_ip ends the refresh.
ResolveFailureFatalAlways(ok) == ~ok

\* `except Exception as err: _LOGGER.debug(...)` around resolve_ip: a failure
\* is logged and the refresh goes on.
ResolveFailureFatal(ok) == FALSE

\* pixelair: `if state is None: raise UpdateFailed`, re-raised by
\* `except UpdateFailed: raise`; any other exception is wrapped in UpdateFailed.
PixelairUpdateData(out) == IF out = "state" THEN "returned" ELSE "UpdateFailed"

\* fluora: the UpdateFailed raised for None is itself caught by
\* `except Exception` and wrapped in a new UpdateFailed, as any exception is.
FluoraUpdateData(out) == IF out = "state" THEN "returned" ELSE "UpdateFailed"

UpdateData(out) ==
    IF variant = "pixelair" THEN PixelairUpdateData(out) ELSE FluoraUpdateData(out)

\* async_config_entry_first_refresh (async_setup_entry, line 148): a refresh
\* that raised UpdateFailed makes it raise ConfigEntryNotReady.
FirstRefresh(r) == IF r = "UpdateFailed" THEN "ConfigEntryNotReady" ELSE "ok"

\* _async_update_data is called and awaits device.resolve_ip(timeout).
RefreshBegin ==
    /\ refPc = "idle"
    /\ refPc' = "resolve_ip"
    /\ refResult' = "pending"
    /\ get_state_out' = "none"
    /\ get_state_ret' = <<>>
    /\ refReturn' = <<>>
    /\ UNCHANGED <<resolve_ok, lifeVars, flowVars, fluoraVars, coordVars, pollVars,
                   stepVars, physVars, lightVars, identVars>>

\* resolve_ip returns or raises; unless that is fatal the call awaits
\* device.get_state(timeout).
RefreshResolved(ok) ==
    /\ refPc = "resolve_ip"
    /\ resolve_ok' = ok
    /\ IF ResolveFailureFatal(ok)
       THEN /\ refPc' = "idle"
            /\ refResult' = "UpdateFailed"
       ELSE /\ refPc' = "get_state"
            /\ UNCHANGED refResult
    /\ UNCHANGED <<get_state_out, get_state_ret, refReturn, lifeVars, flowVars,
                   fluoraVars, coordVars, pollVars, stepVars, physVars, lightVars, identVars>>

\* get_state returns the state s: the refresh returns it.
RefreshGotState(s) ==
    /\ refPc = "get_state"
    /\ refPc' = "idle"
    /\ get_state_out' = "state"
    /\ get_state_ret' = <<s>>
    /\ refResult' = UpdateData("state")
    /\ refReturn' = (IF UpdateData("state") = "returned" THEN <<s>> ELSE <<>>)
    /\ UNCHANGED <<resolve_ok, lifeVars, flowVars, fluoraVars, coordVars, pollVars,
                   stepVars, physVars, lightVars, identVars>>

\* get_state returns None or raises: the refresh raises UpdateFailed.
RefreshGetStateFailed(out) ==
    /\ refPc = "get_state"
    /\ refPc' = "idle"
    /\ get_state_out' = out
    /\ get_state_ret' = <<>>
    /\ refResult' = UpdateData(out)
    /\ refReturn' = <<>>
    /\ UNCHANGED <<resolve_ok, lifeVars, flowVars, fluoraVars, coordVars, pollVars,
                   stepVars, physVars, lightVars, identVars>>

RefreshNext ==
    \/ RefreshBegin
    \/ \E ok \in BOOLEAN : RefreshResolved(ok)
    \/ \E s \in DeviceStates : RefreshGotState(s)
    \/ \E out \in DeviceErrors \cup {"None"} : RefreshGetStateFailed(out)

RefreshSpec == PollInit /\ [][RefreshNext]_vars

\* ------------------------------------- one coordinator and its device
\* The coordinator from its construction: its first refresh, its start of
\* polling, and then the steady state, with the device behind it changing
\* state, answering or not. update_interval is None, so _async_update_data
\* runs for the first refresh only. Commands and start_polling return here;
\* their failures are in CmdSpec and PollSpec.

\* PixelAirCoordinator.__init__: no data yet.
CoordCreated(v) ==
    /\ variant = v
    /\ dev_state = DefaultState
    /\ data = NoData
    /\ last_update_success = TRUE
    /\ published = FALSE
    /\ cmdPc = "idle"
    /\ cmd = NoCommand
    /\ cmdCalls = 0
    /\ cmdResult = "none"
    /\ event = "none"
    /\ notified = 0

\* PixelAirLight.available:
\* `self.coordinator.last_update_success and self.coordinator.data is not None`
available == last_update_success /\ data # NoData

\* async_config_entry_first_refresh ends: the state _async_update_data
\* returned becomes coordinator.data; UpdateFailed clears last_update_success
\* and the setup ends with ConfigEntryNotReady.
FirstRefreshEnds ==
    /\ refPc = "idle"
    /\ refResult \in {"returned", "UpdateFailed"}
    /\ data = NoData
    /\ last_update_success
    /\ IF FirstRefresh(refResult) = "ok"
       THEN /\ data' = refReturn[1]
            /\ dev_state' = refReturn[1]
            /\ UNCHANGED last_update_success
       ELSE /\ last_update_success' = FALSE
            /\ UNCHANGED <<data, dev_state>>
    /\ event' = "none"
    /\ published' = FALSE
    /\ UNCHANGED <<variant, cmdPc, cmd, cmdCalls, cmdResult, notified, lifeVars, flowVars,
                   fluoraVars, pollVars, refreshVars, stepVars, physVars, lightVars, identVars>>

\* The device itself comes to the state s, under its next state counter: a
\* command that reached it, or a change made at the device.
DeviceChanges(s) ==
    /\ actual.state_counter < MaxCounter
    /\ s.state_counter = actual.state_counter + 1
    /\ actual' = s
    /\ UNCHANGED <<responding, lifeVars, flowVars, fluoraVars, coordVars, pollVars,
                   refreshVars, stepVars, lightVars, identVars>>

\* The device stops answering.
DeviceStopsResponding ==
    /\ responding
    /\ responding' = FALSE
    /\ UNCHANGED <<actual, lifeVars, flowVars, fluoraVars, coordVars, pollVars,
                   refreshVars, stepVars, lightVars, identVars>>

\* A tick of the library's poll whose probe gets no answer: nothing is
\* fetched and no callback is called.
TickUnanswered ==
    /\ dev_polling
    /\ event' = "tick"
    /\ NoPublish
    /\ UNCHANGED <<variant, dev_state, cmdPc, cmd, cmdCalls, cmdResult, lifeVars, flowVars,
                   fluoraVars, pollVars, refreshVars, stepVars, physVars, lightVars, identVars>>

\* A tick of the library's poll, every POLL_INTERVAL seconds while it runs.
SteadyTick == IF responding THEN Tick(actual) ELSE TickUnanswered

SteadyInit ==
    /\ HostInit
    /\ CoordCreated("pixelair")
    /\ PollingInit(FALSE)
    /\ RefreshInit

SteadyNext ==
    \/ (data = NoData /\ last_update_success /\ refResult = "none" /\ RefreshBegin)
    \/ \E ok \in BOOLEAN : RefreshResolved(ok)
    \/ (responding /\ RefreshGotState(actual))
    \/ \E out \in DeviceErrors \cup {"None"} : RefreshGetStateFailed(out)
    \/ FirstRefreshEnds
    \/ (data # NoData /\ StartPollingCall)
    \/ StartPollingDone(TRUE, TRUE)
    \/ \E s \in PollStates : DeviceChanges(s)
    \/ DeviceStopsResponding
    \/ SteadyTick
    \/ (data # NoData /\ responding /\ Push(actual))
    \/ \E c \in PollCommands : (data # NoData /\ CmdCall(c))
    \/ CmdSucceeded

\* The library's poll loop keeps ticking while polling runs.
SteadySpec == SteadyInit /\ [][SteadyNext]_vars /\ WF_vars(SteadyTick)

\* ---------------------------------------------------------- specifications
Quiescent == \A e \in Entries : pc[e] = "idle"

\* Steps that resume a suspended setup or unload call.
Resume(e) ==
    \/ \E ids \in BOOLEAN : SetupListenerStarted(e, ids)
    \/ SetupListenerStartFailed(e)
    \/ \E found \in BOOLEAN : SetupConnected(e, found)
    \/ \E ok \in BOOLEAN : SetupRegistered(e, ok)
    \/ SetupGotState(e)
    \/ \E ok \in BOOLEAN : SetupRefreshed(e, ok)
    \/ \E ok \in BOOLEAN : SetupPollingStarted(e, ok)
    \/ SetupForwarded(e)
    \/ \E ok \in BOOLEAN : UnloadPlatforms(e, ok)
    \/ \E ok \in BOOLEAN : UnloadPollingStopped(e, ok)
    \/ UnloadUnregistered(e)
    \/ UnloadListenerStopped(e)

Flow ==
    \/ \E step \in {"dhcp", "discovery"} : FlowGetListener(step)
    \/ \E ok \in BOOLEAN : FlowListenerStarted(ok)
    \/ \E found \in BOOLEAN : FlowVerified(found)
    \/ FlowProbed
    \/ FlowCleanedUp

\* The host's calls, interleaved at every await: a setup for an entry that is
\* not loaded, an unload for a loaded one.
Next ==
    \/ \E e \in Entries : \E ids \in BOOLEAN : SetupBeginShared(e, ids)
    \/ \E e \in Entries : SetupBeginStart(e)
    \/ \E e \in Entries : entryState[e] = "loaded" /\ UnloadBegin(e)
    \/ \E e \in Entries : Resume(e)

Spec == Init /\ [][Next]_vars

\* The host's calls one at a time, with config flows running beside them.
FlowNext ==
    \/ \E e \in Entries : \E ids \in BOOLEAN : Quiescent /\ SetupBeginShared(e, ids)
    \/ \E e \in Entries : Quiescent /\ SetupBeginStart(e)
    \/ \E e \in Entries : Quiescent /\ entryState[e] = "loaded" /\ UnloadBegin(e)
    \/ \E e \in Entries : Resume(e)
    \/ Flow

FlowSpec == Init /\ [][FlowNext]_vars

\* Any sequence of setup and unload calls, one call at a time: a call begins
\* only when no other is in flight, and unload may be called for any entry,
\* loaded or not (releasing more often than acquired).
SeqNext ==
    \/ \E e \in Entries : \E ids \in BOOLEAN : Quiescent /\ SetupBeginShared(e, ids)
    \/ \E e \in Entries : Quiescent /\ SetupBeginStart(e)
    \/ \E e \in Entries : Quiescent /\ UnloadBegin(e)
    \/ \E e \in Entries : Resume(e)

SeqSpec == Init /\ [][SeqNext]_vars


\* ------------------------------------------------------------------ claims
\* The listener recorded in hass.data exists and is started.
ListenerOpen == shared_listener # None /\ lstate[shared_listener] = "started"

\* Entry e has taken its reference and is still setting up.
InSetupAfterAcquire(e) ==
    pc[e] \in {"s_connect", "s_register", "s_get_state", "s_refresh", "s_polling", "s_forward"}

LoadedIdle(e) == entryState[e] = "loaded" /\ pc[e] = "idle"

\* C1: over every sequence of setup and unload calls, the shared listener
\* exists and is started exactly when listener_ref_count > 0, and the count of
\* no domain-data object is ever negative.
C1_RefCountInvariant ==
    /\ ListenerOpen <=> listener_ref_count > 0
    /\ \A d \in DomainObjs : dd_ref_count[d] >= 0

\* C1 witness: a listener was closed by a last release, and a later listener is
\* open and shared by two sessions.
C1_Witness ==
    /\ \E l \in Listeners : lstate[l] = "stopped"
    /\ ListenerOpen
    /\ listener_ref_count = 2
    /\ \A e \in Entries : LoadedIdle(e)

\* C2: a setup call that took a reference and then failed leaves
\* listener_ref_count at its value before the call, so that with no call in
\* flight and no entry loaded the count is 0 and the listener is closed.
C2_AcquireReleasedOnFailure ==
    /\ (Quiescent /\ result \in {"ConfigEntryNotReady", "Exception"})
           => listener_ref_count = preCount
    /\ (Quiescent /\ \A e \in Entries : entryState[e] = "not_loaded")
           => (listener_ref_count = 0 /\ shared_listener = None)

\* C3: two setup calls that overlap in `await listener.start()` on the same
\* domain data await one and the same UDPListener, and once both hold their
\* reference they hold the same listener and the count is at least 2.
C3_ConcurrentAcquireSafe ==
    \A e, f \in Entries :
        (e # f /\ domain_data[e] = domain_data[f]) =>
            /\ (pc[e] = "s_start" /\ pc[f] = "s_start") => listener[e] = listener[f]
            /\ (InSetupAfterAcquire(e) /\ InSetupAfterAcquire(f)) =>
                   (listener[e] = listener[f] /\ dd_ref_count[domain_data[e]] >= 2)

\* C4: a session whose setup completed never holds a stopped listener: its
\* listener is started, domain data is present and records a listener, and the
\* count is at least 1.
C4_NoUseAfterClose ==
    \A e \in Entries :
        LoadedIdle(e) =>
            /\ lstate[device[e]] # "stopped"
            /\ hassDomain # None
            /\ shared_listener # None
            /\ listener_ref_count >= 1


\* Some device session holds the shared listener.
SessionHolds == \E e \in Entries : LoadedIdle(e) \/ InSetupAfterAcquire(e)

\* UDPListener objects that are started and not stopped, process-wide.
OpenListeners ==
    Cardinality({l \in Listeners : lstate[l] = "started"})
        + (IF flow_listener = "started" THEN 1 ELSE 0)

\* C6: while a device session holds the shared listener no other UDPListener
\* exists, the config flow's discovery and DHCP steps included, and at most one
\* listener is open in the process.
C6_SingleListener ==
    /\ SessionHolds => flow_listener = "None"
    /\ OpenListeners <= 1

\* C7: the step in which the last release completes leaves the listener stopped,
\* stopped once, the handle discarded and the domain data removed; and a setup
\* call never takes a listener that was stopped: with the handle discarded it
\* creates a fresh UDPListener and starts it.
C7_LastReleaseDiscards ==
    [][\A e \in Entries :
        /\ (pc[e] = "u_stop" /\ pc'[e] = "idle") =>
               /\ lstate'[listener[e]] = "stopped"
               /\ stopCalls'[listener[e]] = 1
               /\ shared_listener' = None
               /\ listener_ref_count' = 0
               /\ hassDomain' = None
        /\ (pc[e] = "idle" /\ pc'[e] \in {"s_start", "s_connect"}) =>
               /\ lstate[listener'[e]] \in {"unused", "started"}
               /\ (hassDomain = None) =>
                      (pc'[e] = "s_start" /\ lstate[listener'[e]] = "unused")
      ]_vars

\* C7 witness: the first listener was stopped once by a last release and a
\* session is loaded on a second, started listener.
C7_Witness ==
    /\ lstate[1] = "stopped" /\ stopCalls[1] = 1
    /\ shared_listener = 2 /\ lstate[2] = "started"
    /\ \E e \in Entries : LoadedIdle(e) /\ device[e] = 2

\* C8: the step in which UDPListener.start() fails raises to the caller, records
\* no listener and leaves listener_ref_count as it was before the call; a
\* listener whose start failed is recorded nowhere; and a setup call that finds
\* no listener recorded creates one and starts it.
C8_StartFailureRetried ==
    [][\A e \in Entries :
        /\ (pc[e] = "s_start" /\ lstate'[listener[e]] = "failed") =>
               /\ pc'[e] = "idle"
               /\ result' = "Exception"
               /\ entryState'[e] = "not_loaded"
               /\ shared_listener' = None
               /\ listener_ref_count' = preCount
               /\ \A d \in DomainObjs : dd_listener'[d] # listener[e]
        /\ (pc[e] = "idle" /\ pc'[e] \in {"s_start", "s_connect"} /\ shared_listener = None) =>
               /\ pc'[e] = "s_start"
               /\ lstate[listener'[e]] = "unused"
               /\ lstate'[listener'[e]] = "created"
      ]_vars

\* C8 witness: a first listener failed to start, and a later setup call created
\* and started a second one and loaded its entry.
C8_Witness ==
    /\ lstate[1] = "failed"
    /\ shared_listener = 2 /\ lstate[2] = "started"
    /\ \E e \in Entries : LoadedIdle(e)


\* C5: an unload call made when listener_ref_count is already 0, or when the
\* domain data was already discarded, returns without raising, leaves the count
\* at 0 and stops no listener (fluora handlers).
C5_OverReleaseHarmless ==
    [][(f_result' \in {"unload:True", "unload:KeyError"} /\ (~f_domain \/ f_ref_count = 0)) =>
           /\ f_result' = "unload:True"
           /\ f_ref_count' = 0
           /\ f_stopCalls' = f_stopCalls
      ]_vars


\* C9: the step in which a device command succeeds ends the call and publishes
\* the device's state, which is the state before the command with the
\* commanded value applied: after set_brightness(v) the published state has
\* brightness v. No push or poll takes part in the step.
C9_OptimisticPublish ==
    [][(cmdPc = "awaiting" /\ cmdResult' = "returned") =>
           /\ cmdPc' = "idle"
           /\ published'
           /\ last_update_success'
           /\ data' = dev_state'
           /\ data' = Optimistic(dev_state, cmd)
           /\ (cmd.name = "set_brightness" => data'.brightness = cmd.arg)
           /\ (cmd.name = "turn_on" => data'.is_on)
      ]_vars

\* C9 witness: set_brightness(1) has returned on a device that was at
\* brightness 0, and the coordinator's data shows brightness 1.
C9_Witness ==
    /\ cmdResult = "returned" /\ published
    /\ data.brightness = 1 /\ data = dev_state
    /\ data # DefaultState

\* C10: the step in which a device command fails ends the call with the very
\* exception the device raised, with the command issued once, without a
\* publish, and with data and last_update_success as they were.
C10_CommandFailurePropagates ==
    [][(cmdPc = "awaiting" /\ cmdResult' \notin {"pending", "returned"}) =>
           /\ cmdPc' = "idle"
           /\ cmdResult' \in DeviceErrors
           /\ cmdCalls' = 1
           /\ ~published'
           /\ data' = data
           /\ last_update_success' = last_update_success
           /\ dev_state' = dev_state
      ]_vars

\* C10 witness: a command has failed with TimeoutError after an earlier state
\* was published, and the data still is that earlier state.
C10_Witness ==
    /\ cmdResult = "TimeoutError" /\ cmdPc = "idle" /\ cmdCalls = 1
    /\ ~published
    /\ data # DefaultState /\ last_update_success

\* A step in which the library delivers a state to a registered callback.
Delivery == event' \in {"push", "fetch"} /\ dev_callbacks > 0

\* A step in which a command's optimistic publish is made.
OptimisticPublish == event' = "optimistic"

\* C11: whenever a state is delivered through _on_device_state_change, after
\* an optimistic publish or at any other time, the coordinator's data becomes
\* the delivered state in full and the listeners are notified.
C11_AuthoritativeReplaces ==
    [][Delivery =>
           /\ data' = dev_state'
           /\ last_update_success'
           /\ published'
           /\ notified' # notified
      ]_vars

\* C11 witness: set_brightness(1) returned and published brightness 1 at
\* counter 0; the push that came next, brightness 0 at counter 2, is the data.
C11_Witness ==
    /\ event = "push" /\ cmdResult = "returned" /\ cmdPc = "idle"
    /\ dev_callbacks = 1
    /\ data.brightness = 0 /\ data.state_counter = 2
    /\ data = dev_state

\* C12: no publish carries a state_counter below the one published before it.
C12_CounterMonotonic ==
    [][notified' # notified => data'.state_counter >= data.state_counter]_vars

\* C13: a publish, right after a publish, of the very state the coordinator
\* already holds does not notify the listeners again.
C13_IdempotentPublish ==
    [][(/\ published
        /\ dev_state' = data
        /\ \/ Delivery
           \/ OptimisticPublish)
       => notified' = notified
      ]_vars

\* C14: a push that reaches the registered callback is published in the step
\* that delivers it, with the counter it carries; a tick that sees the counter
\* the library already holds fetches nothing, publishes nothing and changes
\* nothing; a tick fetches only when the counter differs.
C14_PushThenQuietTick ==
    [][/\ (event' = "push" /\ dev_callbacks > 0) =>
              /\ notified' # notified
              /\ data' = dev_state'
       /\ event' = "tick" =>
              /\ notified' = notified /\ ~published'
              /\ data' = data /\ dev_state' = dev_state
              /\ last_update_success' = last_update_success
       /\ event' = "fetch" => dev_state'.state_counter # dev_state.state_counter
      ]_vars

\* C14 witness: polling was started, one push with counter 2 was published (the
\* only publish so far, no command was called), and the last step was a tick
\* that found counter 2.
C14_Witness ==
    /\ event = "tick" /\ polling_started /\ dev_polling /\ dev_callbacks = 1
    /\ data.state_counter = 2 /\ data = dev_state
    /\ notified = 1 /\ cmdResult = "none"

\* A call of async_stop_polling ended last and did something, and no call of
\* async_start_polling has begun since.
AfterStop ==
    /\ pollPc = "idle"
    /\ devCalls \cap {"stop_polling", "remove_state_callback"} # {}

\* C15: once async_stop_polling has returned, and until polling is started
\* again, no step notifies the coordinator's listeners.
C15_NoPublishAfterStop ==
    [][AfterStop => notified' = notified]_vars

\* The coordinator records neither polling nor a registered callback: polling
\* was never started, or was stopped.
NotPolling == ~polling_started /\ ~state_callback_registered

C17_ReEnterable ==
    [][(event' = "start_done" /\ polling_started') =>
           /\ pollPc' = "idle"
           /\ state_callback_registered'
           /\ dev_callbacks' = 1
           /\ dev_polling'
      ]_vars

\* C17 witness: with no command ever called, the callback was registered and
\* counter 2 was published, a stop call removed the callback, a push with
\* counter 1 went unheard, and device.start_polling has now succeeded.
C17_Witness ==
    /\ event = "start_done" /\ polling_started /\ pollPc = "idle"
    /\ state_callback_registered /\ dev_callbacks = 1 /\ dev_polling
    /\ data.state_counter = 2 /\ dev_state.state_counter = 1
    /\ notified = 1 /\ cmdResult = "none"

\* C18: in a setup call the first refresh is begun once, from the await of
\* get_state and with no callback registered and no polling started; only its
\* success leads on to the registration of the callback and the await of
\* device.start_polling; its failure ends the call with ConfigEntryNotReady,
\* the entry not loaded, no callback registered and no polling started.
C18_RefreshBeforePolling ==
    [][\A e \in Entries :
          /\ (pc'[e] = "s_refresh" /\ pc[e] # "s_refresh") =>
                 /\ pc[e] = "s_get_state"
                 /\ ~cbRegistered'[e] /\ ~pollingStarted'[e]
          /\ (pc[e] = "s_refresh" /\ pc'[e] # "s_refresh") =>
                 \/ pc'[e] = "s_polling" /\ cbRegistered'[e] /\ ~pollingStarted'[e]
                 \/ /\ pc'[e] = "idle" /\ result' = "ConfigEntryNotReady"
                    /\ entryState'[e] = "not_loaded"
                    /\ ~cbRegistered'[e] /\ ~pollingStarted'[e]
          /\ (pc'[e] = "s_polling" /\ pc[e] # "s_polling") => pc[e] = "s_refresh"
          /\ (cbRegistered'[e] /\ ~cbRegistered[e]) => pc[e] = "s_refresh"
          /\ (pollingStarted'[e] /\ ~pollingStarted[e]) => pc[e] = "s_polling"
      ]_vars

\* C18 witness: one entry is loaded with its polling started, and the setup
\* of the other got as far as a registered device and then failed in its
\* first refresh: nothing of its polling is started.
C18_Witness ==
    \E e, f \in Entries :
        /\ LoadedIdle(f) /\ cbRegistered[f] /\ pollingStarted[f]
        /\ pc[e] = "idle" /\ entryState[e] = "not_loaded" /\ registered[e]
        /\ result = "ConfigEntryNotReady"
        /\ ~cbRegistered[e] /\ ~pollingStarted[e]

\* C19: whatever resolve_ip did, the refresh goes on to get_state and ends
\* only after it; when get_state raised or returned None the refresh raises
\* UpdateFailed, which the first refresh turns into ConfigEntryNotReady; the
\* refresh returns only when get_state returned a state, and returns that state.
C19_RefreshOutcome ==
    [][/\ (refPc = "resolve_ip" /\ refPc' # "resolve_ip") => refPc' = "get_state"
       /\ (refPc # "idle" /\ refPc' = "idle") =>
              /\ refPc = "get_state"
              /\ get_state_out' \in DeviceErrors \cup {"None"} =>
                     /\ refResult' = "UpdateFailed"
                     /\ FirstRefresh(refResult') = "ConfigEntryNotReady"
                     /\ refReturn' = <<>>
              /\ refResult' = "returned" =>
                     /\ get_state_out' = "state"
                     /\ Len(get_state_ret') = 1
                     /\ refReturn' = get_state_ret'
                     /\ FirstRefresh(refResult') = "ok"
              /\ refResult' \in {"returned", "UpdateFailed"}
      ]_vars

\* C19 witness: in the fluora coordinator resolve_ip raised, get_state was
\* still called and returned a state, and the refresh returned it.
C19_Witness ==
    /\ variant = "fluora" /\ refPc = "idle"
    /\ ~resolve_ok /\ get_state_out = "state"
    /\ refResult = "returned" /\ Len(refReturn) = 1

\* The step in which the unload call of the loaded entry e returns True.
UnloadReturnsTrue(e) ==
    /\ entryState[e] = "loaded"
    /\ pc[e] \in {"u_unregister", "u_stop"}
    /\ pc'[e] = "idle"
    /\ result' = "True"

\* C20: when the unload of a loaded entry returns True, the coordinator's
\* polling is stopped, its callback is removed, the device is unregistered
\* and listener_ref_count is one below its value when the call began.
C20_TeardownReleasesEverything ==
    [][\A e \in Entries :
          UnloadReturnsTrue(e) =>
              /\ ~pollingStarted'[e]
              /\ ~cbRegistered'[e]
              /\ ~registered'[e]
              /\ listener_ref_count' = preCount - 1
      ]_vars

\* ------------------------------------------------------------ config flow
\* The devices of a discovery result that are new: they carry a MAC address
\* whose normal form is the unique id of no registered entry.
NewIn(found, existing) ==
    {i \in DOMAIN found : /\ found[i].mac_address # NoMac
                          /\ NormalizedMac(found[i].mac_address) \notin existing}
Kept(list) == {list[i] : i \in DOMAIN list}

\* C21: a discovery that returned its list goes, with N the number of new
\* devices in it, to the confirmation form of that device when N = 1, ends
\* the flow with an abort and no entry when N = 0, and shows the selection
\* form, with no device chosen, when N > 1; from the selection form the
\* confirmation form is reached only by submitting the serial number of the
\* device it then shows.
C21_Disambiguation ==
    [][/\ (devices' \in FoundLists /\ StepDiscovery("ok", devices')) =>
            LET found == devices'
                new == NewIn(found, current_entries)
            IN /\ Cardinality(new) = 0 =>
                    /\ flow_result' \in {Abort("no_devices_found"),
                                         Abort("all_devices_configured")}
                    /\ flow_form' = "ended"
                    /\ entry_data' = NoEntry
               /\ Cardinality(new) = 1 =>
                    /\ flow_result' = ShowForm("confirm", "none")
                    /\ flow_form' = "confirm"
                    /\ \E i \in new : discovered_device' = found[i]
               /\ Cardinality(new) > 1 =>
                    /\ flow_result' = ShowForm("select_device", "none")
                    /\ flow_form' = "select_device"
                    /\ discovered_device' = NoDevice
       /\ (flow_form = "select_device" /\ flow_form' = "confirm") =>
            /\ submitted' \in DOMAIN discovered_devices
            /\ discovered_device'.serial_number = submitted'
      ]_vars

\* The confirmation form was reached through the selection form.
C21_Witness ==
    /\ flow_form = "confirm"
    /\ flow_source = "user"
    /\ Len(new_devices) > 1
    /\ submitted = "SN-002"

\* C22: of the devices a discovery returned with a MAC address, exactly those
\* are kept as new whose normalized MAC address is the unique id of no
\* registered entry, whatever their serial numbers; a device reporting
\* "A:1" is not kept when "a1" is registered.
C22_CandidateFiltering ==
    [][LET found == devices' IN
          (found # << >> /\ found \in FoundLists /\ StepDiscovery("ok", found)) =>
            /\ \A i \in DOMAIN found : found[i].mac_address # NoMac =>
                    (found[i] \in Kept(new_devices')
                        <=> NormalizedMac(found[i].mac_address) \notin current_entries)
            /\ <<"a", "1">> \in current_entries =>
                    \A d \in Kept(new_devices') : d.mac_address # <<"A", ":", "1">>
      ]_vars

\* A discovery found a registered device and a new one, and kept the new one.
C22_Witness ==
    /\ probe = "ok"
    /\ flow_result.type = "form"
    /\ <<"a", "1">> \in current_entries
    /\ \E i \in DOMAIN devices : devices[i].mac_address = <<"A", ":", "1">>
    /\ \E i \in DOMAIN devices : devices[i].serial_number = "SN-002"
    /\ \A i \in DOMAIN new_devices : new_devices[i].serial_number = "SN-002"
    /\ new_devices # << >>

\* C23: after the selection form was submitted with serial S, the entry the
\* confirmation creates has serial_number S and the normalized MAC address of
\* a new device found with serial S, and of no new device found with another
\* serial; a serial that is not among the candidates ends the flow with an
\* abort and no entry.
C23_SelectionExact ==
    [][/\ (StepConfirm /\ flow_result'.type = "create_entry" /\ submitted # "none") =>
            /\ entry_data'.serial_number = submitted
            /\ \E i \in DOMAIN new_devices :
                    /\ new_devices[i].serial_number = submitted
                    /\ entry_data'.mac_address = NormalizedMac(new_devices[i].mac_address)
            /\ \A i \in DOMAIN new_devices :
                    new_devices[i].serial_number # submitted =>
                        entry_data'.mac_address # NormalizedMac(new_devices[i].mac_address)
       /\ \A serial \in Serials :
            (StepSelectDevice(serial)
                /\ \A i \in DOMAIN new_devices : new_devices[i].serial_number # serial) =>
                    /\ flow_result' = Abort("device_not_found")
                    /\ flow_form' = "ended"
                    /\ entry_data' = NoEntry
      ]_vars

\* Of two new devices with their own serial numbers the second was selected
\* and its entry created.
C23_Witness ==
    /\ flow_result.type = "create_entry"
    /\ submitted = "SN-002"
    /\ entry_data.serial_number = "SN-002"
    /\ \E i \in DOMAIN new_devices : new_devices[i].serial_number = "SN-001"

\* C24: a DHCP-triggered probe of an address that is not configured ends, for
\* every outcome other than a device answering, with the abort
\* 'not_pixelair_device'; no outcome makes the step raise; the confirmation
\* form is shown only when a device answered.
C24_ProbeNeverRaises ==
    [][\A m \in RawMacs : \A d \in DiscoverableDevices :
          LET out == probe' IN
            (/\ NormalizedMac(m) \notin current_entries
             /\ out \in ProbeOutcomes
             /\ StepDhcp(m, out, d)) =>
                /\ out # "ok" => /\ flow_result' = Abort("not_pixelair_device")
                                 /\ flow_form' = "ended"
                /\ flow_result'.type # "raise"
                /\ flow_result'.type = "form" =>
                        /\ out = "ok"
                        /\ flow_result' = ShowForm("confirm", "none")
                        /\ discovered_device' = d
      ]_vars

\* A probe in which get_device_info raised ended with the abort.
C24_Witness ==
    /\ flow_source = "dhcp"
    /\ probe = "info:OSError"
    /\ flow_result = Abort("not_pixelair_device")

\* C25: the entry a flow created stores a MAC address without upper-case
\* letters and colons that is the flow's unique id, and the serial number and
\* display name of the device whose MAC address it is.
C25_EntryIdentity ==
    flow_result.type = "create_entry" =>
        /\ \A i \in DOMAIN entry_data.mac_address :
                entry_data.mac_address[i] \notin {":", "A"}
        /\ entry_data.mac_address # NoMac
        /\ entry_data.mac_address = unique_id
        /\ \E d \in DiscoverableDevices :
                /\ d = discovered_device
                /\ entry_data.serial_number = d.serial_number
                /\ entry_data.name = d.display_name
                /\ entry_data.title = d.display_name
                /\ entry_data.mac_address =
                        CASE d.mac_address = <<"A", ":", "1">> -> <<"a", "1">>
                          [] d.mac_address = <<"a", ":", "2">> -> <<"a", "2">>
                          [] OTHER -> d.mac_address

\* A DHCP flow created the entry of the device that reports "A:1".
C25_Witness ==
    /\ flow_result.type = "create_entry"
    /\ flow_source = "dhcp"
    /\ discovered_device.mac_address = <<"A", ":", "1">>

\* C28: a discovery step in which the listener's start or discover_with_info
\* raised or timed out raises nothing and creates no entry: it shows the user
\* form with the error 'cannot_connect', and the flow stays at that form,
\* from which discovery can be submitted again.
C28_DiscoveryFailureIsForm ==
    [][\A out \in DiscoveryErrors : StepDiscovery(out, << >>) =>
            /\ flow_result' = ShowForm("user", "cannot_connect")
            /\ flow_form' = "user"
            /\ entry_data' = NoEntry
            /\ current_entries' = current_entries
      ]_vars

\* A discovery timed out and the user form is shown with the error.
C28_Witness ==
    /\ probe = "discover:TimeoutError"
    /\ flow_form = "user"
    /\ flow_result = ShowForm("user", "cannot_connect")

\* --------------------------------------------------- setup and polling
\* C29: when async_setup_entry returns True the coordinator it created has
\* started the library's polling (_polling_started) and has its state
\* callback registered.
C29_SetupImpliesPolling ==
    [][\A e \in Entries : SetupForwarded(e) =>
            (pollingStarted'[e] /\ cbRegistered'[e])]_vars

\* C30: once the fluora async_setup_entry has returned True, a state the
\* library receives from the device is published by the coordinator, the
\* state callback being registered and the library's poll running.
C30_FluoraPublishes ==
    [][\A s \in PollStates : FluoraPush(s) =>
            /\ published'
            /\ data' = s
            /\ state_callback_registered'
            /\ dev_polling']_vars

\* ------------------------------------------------- availability, optimism
\* C26: before a refresh has succeeded the data is absent and the light is
\* not available; once data is present and the device no longer answers, the
\* light eventually is not available, the data still being present.
C26_StaleBecomesUnavailable ==
    /\ [](data = NoData => ~available)
    /\ ((~responding /\ data # NoData /\ dev_polling) ~> (~available /\ data # NoData))

\* C27: after an optimistic publish, made while the library polls a device
\* that answers, an authoritative publish follows that makes the
\* coordinator's data the device's state, unless the device stops answering.
C27_OptimisticReconciled ==
    (event = "optimistic" /\ dev_polling /\ responding /\ data # actual)
        ~> ((published /\ event \in {"push", "fetch"} /\ data = actual) \/ ~responding)

\* ------------------------------------------------ polling, once more
\* C31: the state callback is in the device's list at most once; a call of
\* async_start_polling made while polling is recorded as started calls no
\* device method; a start_polling that raised leaves _polling_started False,
\* and the next call awaits start_polling again without adding the callback
\* again.
C31_StartIdempotent ==
    /\ [](dev_callbacks <= 1)
    /\ [][/\ (StartPollingCall /\ polling_started) =>
                (devCalls' = {} /\ pollPc' = "idle" /\ dev_callbacks' = dev_callbacks)
          /\ \A running \in BOOLEAN :
                (StartPollingDone(FALSE, running) /\ ~polling_started) => ~polling_started'
          /\ (StartPollingCall /\ ~polling_started /\ state_callback_registered) =>
                (devCalls' = {"start_polling"} /\ dev_callbacks' = dev_callbacks)
         ]_vars

\* After a start_polling that raised, the next call awaits start_polling with
\* the callback registered once.
C31_Witness ==
    /\ pollPc = "starting"
    /\ devCalls = {"start_polling"}
    /\ state_callback_registered
    /\ dev_callbacks = 1
    /\ ~polling_started

\* C32: a coordinator recorded as polling has its state callback registered.
C32_PollingImpliesCallback ==
    polling_started => state_callback_registered

\* ------------------------------------------------ light entity: async_turn_on
\* One call of the light entity's async_turn_on, one action per stretch between
\* two awaits. The coordinator commands it awaits are the ones of the command
\* section: the device command is awaited, and when it returns the library's
\* optimistic state is published before the coordinator command returns.
MaxEffects == 2
Keys == {"brightness", "hs_color", "effect"}
EffectNames == {"Rainbow", "Fire"}

\* What the host passes: brightness 0..255, hue 0..360, saturation 0..100;
\* here the two ends of each range.
HABrightness == {0, 255}
HAHues == {0, 360}
HASaturations == {0, 100}

\* The kwargs of a call: a dict, here its keys and the values under them (a
\* key that is absent has the fixed value of NoKwargs' shape).
TurnOnKwargs ==
    {kw \in [keys : SUBSET Keys, brightness : HABrightness,
             hs_color : HAHues \X HASaturations, effect : EffectNames \cup {"Nope"}] :
        /\ "brightness" \notin kw.keys => kw.brightness = 0
        /\ "hs_color" \notin kw.keys => kw.hs_color = <<0, 0>>
        /\ "effect" \notin kw.keys => kw.effect = "Nope"}

\* state.effects: EffectInfo(id, display_name), in the device's order
EffectInfos ==
    {[id |-> "auto", display_name |-> "Rainbow"],
     [id |-> "scene:0", display_name |-> "Rainbow"],
     [id |-> "scene:0", display_name |-> "Fire"]}
RECURSIVE SeqsUpTo(_, _)
SeqsUpTo(S, n) ==
    IF n = 0 THEN {<< >>}
    ELSE LET shorter == SeqsUpTo(S, n - 1)
         IN shorter \cup {Append(q, x) : q \in shorter, x \in S}
EffectLists == SeqsUpTo(EffectInfos, MaxEffects)

\* `device_brightness = brightness / 255.0`, on the scale of Levels
DeviceBrightness(brightness) == (brightness * MaxLevel) \div 255

\* `hue = hs_color[0] / 360.0`
DeviceHue(hs_color) == (hs_color[1] * MaxLevel) \div 360

\* `saturation = hs_color[1] / 100.0`
DeviceSaturation(hs_color) == (hs_color[2] * MaxLevel) \div 100

\* Mutant: the power-on command is sent before the attribute commands.
OrderPowerFirst == <<"turn_on", "set_brightness", "set_hue", "set_saturation", "set_effect">>

\* The order of the awaits in async_turn_on.
Order == <<"set_brightness", "set_hue", "set_saturation", "set_effect", "turn_on">>

\* `effect.display_name == effect_name` for some effect of the list
HasEffect(effs, effect_name) == \E i \in DOMAIN effs : effs[i].display_name = effect_name

\* Mutant: the loop keeps the last effect of that name.
LastEffect(effs, effect_name) ==
    effs[CHOOSE i \in DOMAIN effs :
            /\ effs[i].display_name = effect_name
            /\ \A j \in DOMAIN effs : effs[j].display_name = effect_name => j <= i].id

\* `for effect in state.effects: if effect.display_name == effect_name: ...
\* break`: the id of the first effect of that name.
FirstEffect(effs, effect_name) ==
    effs[CHOOSE i \in DOMAIN effs :
            /\ effs[i].display_name = effect_name
            /\ \A j \in DOMAIN effs : effs[j].display_name = effect_name => i <= j].id

\* The condition under which async_turn_on awaits a command: the `if ... in
\* kwargs` tests, `if state:` and the loop's match for the effect, and none
\* for the power-on command.
Requested(name, kw, state, effs) ==
    CASE name = "set_brightness" -> "brightness" \in kw.keys
      [] name \in {"set_hue", "set_saturation"} -> "hs_color" \in kw.keys
      [] name = "set_effect" ->
            "effect" \in kw.keys /\ state # NoData /\ HasEffect(effs, kw.effect)
      [] name = "turn_on" -> TRUE

\* The coordinator command async_turn_on awaits, with its argument.
CommandOf(name, kw, effs) ==
    CASE name = "set_brightness" -> [name |-> name, arg |-> DeviceBrightness(kw.brightness)]
      [] name = "set_hue" -> [name |-> name, arg |-> DeviceHue(kw.hs_color)]
      [] name = "set_saturation" -> [name |-> name, arg |-> DeviceSaturation(kw.hs_color)]
      [] name = "set_effect" -> [name |-> name, arg |-> FirstEffect(effs, kw.effect)]
      [] name = "turn_on" -> [name |-> name, arg |-> 0]

\* The place in Order of the next command the call awaits after place
\* `after`; 0 when the call has no await left.
NextPlace(after, kw, state, effs) ==
    LET later == {n \in DOMAIN Order : n > after /\ Requested(Order[n], kw, state, effs)}
    IN IF later = {} THEN 0 ELSE CHOOSE n \in later : \A m \in later : n <= m

\* The call goes on after place `after`: it awaits its next coordinator
\* command, which awaits the device command; or it returns.
LightGoesOn(after, kw, state, effs) ==
    LET n == NextPlace(after, kw, state, effs)
    IN /\ lightPc' = n
       /\ IF n = 0
          THEN /\ cmd' = NoCommand
               /\ cmdPc' = "idle"
               /\ cmdResult' = "returned"
               /\ light_result' = "returned"
               /\ UNCHANGED <<sent, cmdCalls>>
          ELSE /\ cmd' = CommandOf(Order[n], kw, effs)
               /\ cmdPc' = "awaiting"
               /\ cmdCalls' = 1
               /\ cmdResult' = "pending"
               /\ light_result' = "pending"
               /\ sent' = Append(sent, cmd')

\* async_turn_on(**kwargs) is called and runs to its first await.
LightTurnOn(kw) ==
    /\ light_result = "none"
    /\ cmdPc = "idle"
    /\ kwargs' = kw
    /\ pubs' = << >>
    /\ LightGoesOn(0, kw, data, effects)
    /\ NoPublish
    /\ event' = "none"
    /\ UNCHANGED <<variant, dev_state, effects, lifeVars, flowVars, fluoraVars, pollVars,
                   refreshVars, stepVars, physVars, identVars>>

\* The awaited device command returns: the library has updated device.state,
\* the coordinator publishes it (_update_optimistic_state) and returns, and
\* async_turn_on goes on to its next await or returns.
LightCommandReturned ==
    /\ lightPc # 0
    /\ dev_state' = Optimistic(dev_state, cmd)
    /\ UpdateOptimisticState
    /\ event' = "optimistic"
    /\ pubs' = Append(pubs, cmd.name)
    /\ LightGoesOn(lightPc, kwargs, data', effects)
    /\ UNCHANGED <<variant, kwargs, effects, lifeVars, flowVars, fluoraVars, pollVars,
                   refreshVars, stepVars, physVars, identVars>>

\* The awaited device command raises: the coordinator command ends with the
\* exception before _update_optimistic_state, and async_turn_on, which has no
\* handler, ends with it as well.
LightCommandRaised(err) ==
    /\ lightPc # 0
    /\ lightPc' = 0
    /\ cmd' = NoCommand
    /\ cmdPc' = "idle"
    /\ cmdResult' = Raised(err)
    /\ light_result' = Raised(err)
    /\ NoPublish
    /\ event' = "none"
    /\ UNCHANGED <<variant, dev_state, cmdCalls, kwargs, sent, pubs, effects, lifeVars,
                   flowVars, fluoraVars, pollVars, refreshVars, stepVars, physVars,
                   identVars>>

\* A push from the device carries another list of effects: the library keeps
\* the state and the state callback publishes it.
EffectsReported(effs) ==
    /\ dev_callbacks > 0
    /\ effs # effects
    /\ effects' = effs
    /\ Deliver(dev_state)
    /\ event' = "push"
    /\ UNCHANGED <<variant, cmdPc, cmd, cmdCalls, cmdResult, kwargs, lightPc, sent, pubs,
                   light_result, lifeVars, flowVars, fluoraVars, pollVars, refreshVars,
                   stepVars, physVars, identVars>>

\* The entity exists once setup's first refresh has published a state. Both
\* integrations' async_turn_on have the same statements; the pixelair one runs.
LightInit ==
    /\ HostInit
    /\ CoordInit("pixelair", DefaultState)
    /\ PollingInit(TRUE)
    /\ RefreshInit

LightNext ==
    \/ \E kw \in TurnOnKwargs : LightTurnOn(kw)
    \/ LightCommandReturned
    \/ \E err \in DeviceErrors : LightCommandRaised(err)
    \/ \E effs \in EffectLists : EffectsReported(effs)

LightSpec == LightInit /\ [][LightNext]_vars

\* The names of the commands the call has issued, and the place of a command
\* in the order set_brightness, set_hue, set_saturation, set_effect, turn_on.
SentNames == {sent[i].name : i \in DOMAIN sent}
Rank(name) ==
    CASE name = "set_brightness" -> 1
      [] name = "set_hue" -> 2
      [] name = "set_saturation" -> 3
      [] name = "set_effect" -> 4
      [] name = "turn_on" -> 5

\* C33: async_turn_on issues its commands in the order set_brightness, set_hue,
\* set_saturation, set_effect, each only when its key was passed, and turn_on
\* last; the optimistic publishes follow the commands one by one in the same
\* order; when a device command raises, the call ends with that exception, the
\* failed command is the last one sent, and turn_on is not among the commands
\* unless it was the one that failed.
C33_TurnOnOrder ==
    /\ [](\A i, j \in DOMAIN sent : i < j => Rank(sent[i].name) < Rank(sent[j].name))
    /\ []( /\ "set_brightness" \in SentNames => "brightness" \in kwargs.keys
           /\ "set_hue" \in SentNames => "hs_color" \in kwargs.keys
           /\ "set_saturation" \in SentNames => "hs_color" \in kwargs.keys
           /\ "set_effect" \in SentNames => "effect" \in kwargs.keys)
    /\ []( /\ Len(pubs) <= Len(sent)
           /\ Len(sent) <= Len(pubs) + 1
           /\ \A i \in DOMAIN pubs : pubs[i] = sent[i].name)
    /\ [](light_result = "pending" => Len(sent) = Len(pubs) + 1)
    /\ [](light_result = "returned" =>
            /\ pubs = [i \in DOMAIN sent |-> sent[i].name]
            /\ sent[Len(sent)].name = "turn_on"
            /\ "brightness" \in kwargs.keys => "set_brightness" \in SentNames
            /\ "hs_color" \in kwargs.keys => {"set_hue", "set_saturation"} \subseteq SentNames)
    /\ [](light_result \in DeviceErrors =>
            /\ cmdResult = light_result
            /\ lightPc = 0
            /\ Len(sent) = Len(pubs) + 1
            /\ \A i \in DOMAIN pubs : sent[i].name # "turn_on")
    /\ [][/\ light_result \in DeviceErrors => sent' = sent
          /\ light_result \in DeviceErrors => pubs' = pubs
         ]_vars

\* The call asked for brightness, colour and an effect; set_hue raised after
\* set_brightness had been published, and nothing was sent after it.
C33_Witness ==
    /\ light_result = "OSError"
    /\ kwargs.keys = Keys
    /\ Len(sent) = 2
    /\ sent[1].name = "set_brightness"
    /\ sent[2].name = "set_hue"
    /\ pubs = <<"set_brightness">>
    /\ data.brightness = MaxLevel
    /\ ~data.is_on

\* C39: set_effect is issued at most once, and the step that issues it has
\* found the requested name in the effects of the coordinator's state and
\* sends the id of the first effect of that name; a call that passed an effect
\* and goes to turn_on without set_effect has found no effect of that name (or
\* no state); and a call that returns has sent turn_on last.
C39_EffectByName ==
    /\ [](\A i, j \in DOMAIN sent :
            (sent[i].name = "set_effect" /\ sent[j].name = "set_effect") => i = j)
    /\ [][(Len(sent') = Len(sent) + 1) =>
            LET c == sent'[Len(sent')]
                named == {i \in DOMAIN effects : effects[i].display_name = kwargs'.effect}
            IN /\ c.name = "set_effect" =>
                    /\ "effect" \in kwargs'.keys
                    /\ data' # NoData
                    /\ \E i \in named : /\ c.arg = effects[i].id
                                        /\ \A j \in named : i <= j
               /\ (c.name = "turn_on" /\ "effect" \in kwargs'.keys
                                      /\ "set_effect" \notin SentNames) =>
                    (named = {} \/ data' = NoData)
          ]_vars
    /\ [](light_result = "returned" => sent[Len(sent)].name = "turn_on")

\* Two effects are called "Rainbow"; the call asked for "Rainbow" and awaits
\* set_effect with the id of the first of them.
C39_Witness ==
    /\ lightPc = 4
    /\ kwargs.effect = "Rainbow"
    /\ effects = <<[id |-> "scene:0", display_name |-> "Rainbow"],
                   [id |-> "auto", display_name |-> "Rainbow"]>>
    /\ cmd = [name |-> "set_effect", arg |-> "scene:0"]

\* C34: a flow begun by DHCP discovery is at the confirmation form, or has
\* created an entry, only with a probed device that reported a MAC address
\* whose normalized form is the normalized DHCP MAC (the flow's unique id).
C34_DhcpIdentityConfirmed ==
    (flow_source = "dhcp" /\ (flow_form = "confirm" \/ flow_result = CreateEntry)) =>
        /\ discovered_device.mac_address # NoMac
        /\ NormalizedMac(discovered_device.mac_address) = unique_id

\* C36: when the selection form shows after a discovery round that found
\* k > 1 new devices with distinct MAC addresses, it offers k choices and each
\* of the k devices is the one stored under its serial number.
C36_NoCandidateLost ==
    ( /\ flow_form = "select_device"
      /\ Len(new_devices) > 1
      /\ \A i, j \in DOMAIN new_devices :
            NormalizedMac(new_devices[i].mac_address) = NormalizedMac(new_devices[j].mac_address)
                => i = j ) =>
        /\ Cardinality(DOMAIN discovered_devices) = Len(new_devices)
        /\ \A i \in DOMAIN new_devices :
              discovered_devices[new_devices[i].serial_number] = new_devices[i]

\* C35: whenever async_step_dhcp or async_step_discovery has returned, the
\* flow holds no listener (self._listener is None); the step that returns has
\* stopped the listener it created; and stop() is called at most once on each
\* listener the flow creates, never while it is already being stopped.
C35_FlowListenerReleased ==
    /\ [](flowPc = "idle" => flow_listener = "None")
    /\ [](flow_stop_calls <= 1)
    /\ [](flow_listener \in {"created", "started"} => flow_stop_calls = 0)
    /\ [][/\ (flowPc # "idle" /\ flowPc' = "idle") =>
                (flow_listener = "stopping" /\ flow_listener' = "None" /\ flow_stop_calls' = 1)
          /\ flow_stop_calls' > flow_stop_calls => flow_listener \in {"created", "started"}
         ]_vars

\* A step has returned after the one stop() of the listener it created.
C35_Witness ==
    /\ flowPc = "idle"
    /\ flow_listener = "None"
    /\ flow_stop_calls = 1

\* ------------------------------------------- fluora config flow: its steps
\* The fluora ConfigFlow, one step per action, on the variables of the flow
\* steps above: context["devices"] is kept in discovered_devices, and the
\* confirmation form is "confirm_discovery". The flow manager calls the
\* handler named after the form that shows, async_step_<step_id>, with the
\* submitted user_input.

\* `device.mac_address.lower()`: the colons stay
LowerMac(m) == [i \in DOMAIN m |-> Lower(m[i])]

\* What iterating the argument of async_step_select_device yields: the devices
\* of a list, the keys of a dict. A key is a str, written [str |-> key].
IterList(devs) == devs
IterDict(user_input) == <<[str |-> "device"]>>

\* `device.serial_number` is defined for every item
HasSerialNumbers(items) == \A i \in DOMAIN items : "serial_number" \in DOMAIN items[i]

\* The filter loop: devices with a MAC address whose lowered form is the
\* unique id of no entry.
RECURSIVE FluoraFiltered(_, _)
FluoraFiltered(found, existing) ==
    IF found = << >> THEN << >>
    ELSE LET dev == Head(found)
             rest == FluoraFiltered(Tail(found), existing)
         IN IF dev.mac_address # NoMac /\ LowerMac(dev.mac_address) \notin existing
            THEN <<dev>> \o rest ELSE rest

\* `self._async_abort_entries_match({})` in the loop: with an empty match every
\* entry of the domain matches, so it raises AbortFlow when a device with a
\* MAC address is met and the domain has an entry.
AbortEntriesMatchRaises(found, existing) ==
    /\ existing # {}
    /\ \E i \in DOMAIN found : found[i].mac_address # NoMac

\* async_step_user(None): the form that starts discovery
FluoraStepUser ==
    /\ flow_form \in {"none", "ended"}
    /\ flow_form' = "user"
    /\ flow_source' = "user"
    /\ flow_result' = ShowForm("user", "none")
    /\ unique_id' = NoId
    /\ discovered_device' = NoDevice
    /\ discovered_devices' = NoDevices
    /\ devices' = << >>
    /\ new_devices' = << >>
    /\ submitted' = "none"
    /\ probe' = "none"
    /\ entry_data' = NoEntry
    /\ UNCHANGED <<current_entries, lifeVars, flowVars, fluoraVars, coordVars, pollVars,
                   refreshVars, physVars, lightVars, identVars>>

\* async_step_select_device(devices), called by async_step_discovery with
\* the list of new devices or by the flow manager with the user_input of the
\* "select_device" form: `items` is what iterating the argument yields.
FluoraSelectDevice(items) ==
    IF HasSerialNumbers(items)
    THEN /\ discovered_devices' = BySerial(items)
         /\ flow_result' = ShowForm("select_device", "none")
         /\ flow_form' = "select_device"
    ELSE /\ flow_result' = Raise("AttributeError")
         /\ UNCHANGED <<discovered_devices, flow_form>>

\* The "user" form is submitted: async_step_user(user_input) awaits
\* async_step_discovery().
FluoraStepDiscovery(out, found) ==
    /\ flow_form = "user"
    /\ submitted' = "none"
    /\ probe' = out
    /\ UNCHANGED <<flow_source, entry_data, current_entries>>
    /\ IF out # "ok" \/ (found # << >> /\ AbortEntriesMatchRaises(found, current_entries))
       THEN /\ flow_result' = ShowForm("user", "cannot_connect")
            /\ flow_form' = "user"
            /\ devices' = (IF out = "ok" THEN found ELSE << >>)
            /\ new_devices' = << >>
            /\ UNCHANGED <<unique_id, discovered_device, discovered_devices>>
       ELSE LET new == FluoraFiltered(found, current_entries)
            IN /\ devices' = found
               /\ new_devices' = new
               /\ IF found = << >>
                  THEN /\ flow_result' = Abort("no_devices_found")
                       /\ flow_form' = "ended"
                       /\ UNCHANGED <<unique_id, discovered_device, discovered_devices>>
                  ELSE IF new = << >>
                  THEN /\ flow_result' = Abort("all_devices_configured")
                       /\ flow_form' = "ended"
                       /\ UNCHANGED <<unique_id, discovered_device, discovered_devices>>
                  ELSE IF Len(new) = 1
                  THEN /\ discovered_device' = new[1]
                       /\ unique_id' = LowerMac(new[1].mac_address)
                       /\ flow_result' = ShowForm("confirm_discovery", "none")
                       /\ flow_form' = "confirm_discovery"
                       /\ UNCHANGED discovered_devices
                  ELSE /\ unique_id' = LowerMac(new[Len(new)].mac_address)
                       /\ FluoraSelectDevice(IterList(new))
                       /\ UNCHANGED discovered_device
    /\ UNCHANGED <<lifeVars, flowVars, fluoraVars, coordVars, pollVars, refreshVars,
                   physVars, lightVars, identVars>>

\* The "select_device" form is submitted with a serial: the flow manager
\* calls async_step_select_device({"device": serial}).
FluoraStepSelectDevice(serial) ==
    /\ flow_form = "select_device"
    /\ serial \in DOMAIN discovered_devices
    /\ submitted' = serial
    /\ FluoraSelectDevice(IterDict([device |-> serial]))
    /\ UNCHANGED <<flow_source, unique_id, discovered_device, devices, new_devices, probe,
                   entry_data, current_entries, lifeVars, flowVars, fluoraVars, coordVars,
                   pollVars, refreshVars, physVars, lightVars, identVars>>

\* async_step_select_device_submit(user_input): the lookup of the submitted
\* serial in context["devices"]. No form of the flow has the step id
\* "select_device_submit", so the flow manager never calls it.
FluoraStepSelectDeviceSubmit(serial) ==
    /\ flow_form = "select_device"
    /\ submitted' = serial
    /\ discovered_device' = Get(discovered_devices, serial)
    /\ IF Get(discovered_devices, serial) = NoDevice
       THEN /\ flow_result' = Abort("device_not_found")
            /\ flow_form' = "ended"
            /\ UNCHANGED unique_id
       ELSE /\ unique_id' = LowerMac(Get(discovered_devices, serial).mac_address)
            /\ flow_result' = ShowForm("confirm_discovery", "none")
            /\ flow_form' = "confirm_discovery"
    /\ UNCHANGED <<flow_source, discovered_devices, devices, new_devices, probe, entry_data,
                   current_entries, lifeVars, flowVars, fluoraVars, coordVars, pollVars,
                   refreshVars, physVars, lightVars, identVars>>

\* The "confirm_discovery" form is submitted: async_step_confirm_discovery
\* creates the entry.
FluoraStepConfirmDiscovery ==
    /\ flow_form = "confirm_discovery"
    /\ flow_result' = CreateEntry
    /\ flow_form' = "ended"
    /\ entry_data' = [title |-> discovered_device.display_name,
                      name |-> discovered_device.display_name,
                      mac_address |-> LowerMac(discovered_device.mac_address),
                      serial_number |-> discovered_device.serial_number]
    /\ current_entries' = current_entries \cup {unique_id}
    /\ UNCHANGED <<flow_source, unique_id, discovered_device, discovered_devices, devices,
                   new_devices, submitted, probe, lifeVars, flowVars, fluoraVars, coordVars,
                   pollVars, refreshVars, physVars, lightVars, identVars>>

FluoraStepNext ==
    \/ FluoraStepUser
    \/ \E out \in DiscoveryErrors : FluoraStepDiscovery(out, << >>)
    \/ \E found \in FoundLists : FluoraStepDiscovery("ok", found)
    \/ \E serial \in Serials : FluoraStepSelectDevice(serial)
    \/ FluoraStepConfirmDiscovery

FluoraStepSpec == Init /\ [][FluoraStepNext]_vars

\* C37: in the fluora flow, submitting the "select_device" form with a listed
\* serial leads to the confirmation form for the device stored under that
\* serial, and the step neither aborts nor raises.
C37_FluoraSelectionConfirms ==
    [][(flow_form = "select_device" /\ submitted' # submitted) =>
            /\ flow_result' = ShowForm("confirm_discovery", "none")
            /\ flow_form' = "confirm_discovery"
            /\ discovered_device' = discovered_devices[submitted']
      ]_vars

\* The unload of entry e reaches `await domain_data.listener.stop()`.
StopsSharedListener(e) == pc[e] # "u_stop" /\ pc'[e] = "u_stop"

\* C38: in async_unload_entry the device is unregistered only after the
\* session's polling is stopped and its callback removed; the shared listener
\* is stopped only after both, and never while another loaded entry has
\* polling active.
C38_TeardownOrdering ==
    [][\A e \in Entries :
          /\ (registered[e] /\ ~registered'[e]) => (~pollingStarted[e] /\ ~cbRegistered[e])
          /\ StopsSharedListener(e) =>
                /\ ~pollingStarted'[e] /\ ~cbRegistered'[e] /\ ~registered'[e]
                /\ \A o \in Entries \ {e} : ~(entryState[o] = "loaded" /\ pollingStarted[o])
      ]_vars

\* ------------------------------------------------- identity of a session
\* The entry a flow created, the coordinator built from it, and what can
\* happen afterwards: the coordinator's operations, one call at a time with
\* pushes in between, a DHCP discovery of the configured device, and the
\* reload of the entry that follows an update.
DhcpAddresses == {"10.0.0.2", "10.0.0.3"}
DhcpInfos == [ip : DhcpAddresses, macaddress : RawMacs]

\* async_step_confirm has created the entry for the device dev: entry.data
\* holds its name, its normalized MAC address and its serial number.
EntryConfigured(dev) ==
    /\ config_entry = NoConfigEntry
    /\ dev.mac_address # NoMac
    /\ config_entry' = [name |-> dev.display_name, mac_address |-> EntryMac(dev),
                        serial_number |-> dev.serial_number, ip |-> "none"]
    /\ UNCHANGED <<identity, lifeVars, flowVars, fluoraVars, coordVars, pollVars, refreshVars,
                   stepVars, physVars, lightVars>>

\* `self.mac_address = entry.data.get(CONF_MAC_ADDRESS, "")`,
\* `self.serial_number = entry.data.get(CONF_SERIAL_NUMBER, "")`
FromEntry(entry_data_) ==
    [mac_address |-> entry_data_.mac_address, serial_number |-> entry_data_.serial_number]

\* PixelAirCoordinator.__init__ for the configured entry
CoordinatorConstructed ==
    /\ config_entry # NoConfigEntry
    /\ identity = NoIdentity
    /\ identity' = FromEntry(config_entry)
    /\ UNCHANGED <<config_entry, lifeVars, flowVars, fluoraVars, coordVars, pollVars,
                   refreshVars, stepVars, physVars, lightVars>>

\* Mutant: the update also stores the MAC address as DHCP reported it.
UpdatedWithMac(entry_data_, discovery_info) ==
    [entry_data_ EXCEPT !.ip = discovery_info.ip, !.mac_address = discovery_info.macaddress]

\* `_abort_if_unique_id_configured(updates={"ip": discovery_info.ip})`: the
\* entry's data with the updates merged in.
Updated(entry_data_, discovery_info) == [entry_data_ EXCEPT !.ip = discovery_info.ip]

\* async_step_dhcp for the configured device: the unique id, the normalized
\* DHCP MAC, is the one of the entry; its data is updated and the flow aborts.
DhcpRediscovered(discovery_info) ==
    /\ config_entry # NoConfigEntry
    /\ NormalizedMac(discovery_info.macaddress) = NormalizedMac(config_entry.mac_address)
    /\ config_entry' = Updated(config_entry, discovery_info)
    /\ UNCHANGED <<identity, lifeVars, flowVars, fluoraVars, coordVars, pollVars, refreshVars,
                   stepVars, physVars, lightVars>>

\* The coordinator is constructed and none of its calls is in flight.
CoordinatorIdle ==
    /\ identity # NoIdentity
    /\ cmdPc = "idle" /\ pollPc = "idle" /\ refPc = "idle"

\* The host reloads the entry after its data changed: the coordinator of the
\* new setup reads entry.data again.
EntryReloaded ==
    /\ config_entry.ip # "none"
    /\ CoordinatorIdle
    /\ identity' = FromEntry(config_entry)
    /\ UNCHANGED <<config_entry, lifeVars, flowVars, fluoraVars, coordVars, pollVars,
                   refreshVars, stepVars, physVars, lightVars>>

\* The states the device reports and the commands issued in this part: every
\* command ends in the same _update_optimistic_state.
IdentStates == {[DefaultState EXCEPT !.is_on = TRUE]}
IdentCommands == {[name |-> "turn_off", arg |-> 0], [name |-> "set_brightness", arg |-> MaxLevel]}

IdentNext ==
    \/ \E dev \in DiscoverableDevices : EntryConfigured(dev)
    \/ CoordinatorConstructed
    \/ \E discovery_info \in DhcpInfos : DhcpRediscovered(discovery_info)
    \/ EntryReloaded
    \/ CoordinatorIdle /\ StartPollingCall
    \/ \E ok \in BOOLEAN : StartPollingDone(ok, ok)
    \/ CoordinatorIdle /\ StopPollingCall
    \/ \E ok \in BOOLEAN : StopPollingDone(ok, ~ok)
    \/ \E s \in IdentStates : identity # NoIdentity /\ Push(s)
    \/ \E c \in IdentCommands : CoordinatorIdle /\ CmdCall(c)
    \/ CmdSucceeded
    \/ \E err \in DeviceErrors : CmdFailed(err)
    \/ CoordinatorIdle /\ RefreshBegin
    \/ \E ok \in BOOLEAN : RefreshResolved(ok)
    \/ \E s \in IdentStates : RefreshGotState(s)
    \/ \E out \in DeviceErrors \cup {"None"} : RefreshGetStateFailed(out)

IdentSpec == Init /\ [][IdentNext]_vars

\* C40: once the coordinator is constructed, no step changes its mac_address
\* or serial_number, and none changes the MAC address or the serial number in
\* the data of the entry it was built from.
C40_IdentityImmutable ==
    [][/\ identity # NoIdentity => identity' = identity
       /\ config_entry # NoConfigEntry => FromEntry(config_entry') = FromEntry(config_entry)
      ]_vars

\* The configured device was rediscovered by DHCP under another address and
\* the entry was updated, while the coordinator had published a command.
C40_Witness ==
    /\ identity = [mac_address |-> <<"a", "1">>, serial_number |-> "SN-001"]
    /\ config_entry.ip = "10.0.0.3"
    /\ polling_started
    /\ event = "optimistic"

====
